---- MODULE Spec2Model ----
(***************************************************************************)
(* Credential resolution and OAuth token lifecycle of openllmprovider:     *)
(* the credential store (auth/store.ts), the OAuth lifecycle handlers      *)
(* (plugin/anthropic.ts, plugin/codex.ts, plugin/google.ts,                *)
(* plugin/copilot.ts) and the provider auth resolution                     *)
(* (provider/state.ts, provider/index.ts).                                 *)
(*                                                                         *)
(* Strings that the code inspects (token prefixes) are sequences of        *)
(* characters; an optional value is a sequence of length 0 (undefined)     *)
(* or 1.                                                                   *)
(***************************************************************************)
EXTENDS Integers, Sequences, FiniteSets, TLC

VARIABLES
  mode,         \* "external" (options.data given) or "storage" (StorageAdapter)
  env,          \* process.env: variable name -> optional value
  userConfig,   \* ProviderStoreConfig.userConfig: provider -> optional config
  persisted,    \* the persisted credential map: provider -> optional credential
  discovered,   \* discoveredCredentials: provider -> sequence of credentials
  diskFiles,      \* what the disk scanners find on this machine
  now,          \* Date.now(), in milliseconds
  stateCache,   \* the provider store's cached state: optional map provider -> state
  last,         \* the last operation: what it read, sent, stored and returned
  flow,         \* the interactive device authorization in progress, if any
  kv,           \* the StorageAdapter of the secret resolver: none, or key -> optional value
  catalog,      \* the catalog of the provider store: its refresh task and its version
  calls,        \* the calls on the provider store in progress: call -> where it stands
  doc,          \* the stored document of a storage-backed store: "json" when it
                \* parses to the map, "torn" while it is being written, "garbled"
  pending,      \* the set and remove calls in progress: writer -> none, or the call
  rotation      \* the refresh token the token endpoint accepts, and the credential
                \* each call under way has read: call -> none, or the credential

\* the variables no operation of the store or of the provider store touches
others == <<flow, kv, rotation>>

vars == <<mode, env, userConfig, persisted, discovered, diskFiles, now, stateCache, last,
          others, catalog, calls, doc, pending>>

----------------------------------------------------------------------------
(* Optional values *)

None == <<>>
Some(x) == <<x>>
IsSome(o) == o # <<>>
Val(o) == o[1]

----------------------------------------------------------------------------
(* Bounds of the model *)

\* number of clock advances in one run
MaxTicks == 1

\* number of candidates discovery keeps for one provider in one run
MaxDiscovered == 1

\* number of polls of a device authorization the model follows
MaxPending == 121

\* extend() is followed while the catalog has seen fewer changes than this
MaxExtends == 2

----------------------------------------------------------------------------
(* Strings *)

Chars(a, b, c) == <<a, b, c>>
EmptyStr == <<>>
SkAnt == <<"s", "k", "-", "a", "n", "t", "-">>
PfxOat == SkAnt \o Chars("o", "a", "t")
PfxOrt == SkAnt \o Chars("o", "r", "t")
TokOatOld == PfxOat \o Chars("-", "o", "l")
TokOatNew == PfxOat \o Chars("-", "n", "w")
TokOrt1 == PfxOrt \o Chars("-", "r", "1")
TokOrt2 == PfxOrt \o Chars("-", "r", "2")
TokApiDirect == SkAnt \o Chars("a", "p", "i") \o Chars("0", "3", "-") \o <<"k">>
TokApiDerived == SkAnt \o Chars("a", "p", "i") \o Chars("0", "3", "-") \o <<"d">>
TokEnv == Chars("e", "n", "v")
TokEnv2 == Chars("e", "n", "2")
TokCfg == Chars("c", "f", "g")
TokDisk == Chars("d", "s", "k")

\* String.prototype.startsWith
StartsWith(s, prefix) ==
  /\ Len(s) >= Len(prefix)
  /\ SubSeq(s, 1, Len(prefix)) = prefix

\* plugin/codex.ts OAUTH_DUMMY_KEY, plugin/google.ts placeholder key
TokCodexDummy == Chars("c", "d", "x")
TokGooglePlaceholder == Chars("g", "g", "l")

----------------------------------------------------------------------------
(* Providers and the catalog *)

Providers == {"anthropic", "openai", "google", "github-copilot", "mistral"}

\* DEFAULT_PROVIDERS[p].env: declared variable names, in priority order
CatalogEnv(p) ==
  CASE p = "anthropic" -> <<"ANTHROPIC_API_KEY">>
    [] p = "openai" -> <<"OPENAI_API_KEY">>
    [] p = "google" -> <<"GOOGLE_GENERATIVE_AI_API_KEY", "GOOGLE_API_KEY">>
    [] p = "mistral" -> <<"MISTRAL_API_KEY">>
    [] OTHER -> <<>>

\* DEFAULT_PROVIDERS[p].bundledProvider
BundledProvider(p) ==
  CASE p = "anthropic" -> "@ai-sdk/anthropic"
    [] p = "openai" -> "@ai-sdk/openai"
    [] p = "google" -> "@ai-sdk/google"
    [] p = "mistral" -> "@ai-sdk/mistral"
    [] OTHER -> "@ai-sdk/openai-compatible"

GOOGLE_PROVIDERS == {"@ai-sdk/google", "@ai-sdk/google-vertex"}

\* ENV_HINTS of auth/store.ts, restricted to the modelled providers
ENV_HINTS ==
  << <<"ANTHROPIC_API_KEY", "anthropic">>,
     <<"OPENAI_API_KEY", "openai">>,
     <<"GOOGLE_GENERATIVE_AI_API_KEY", "google">>,
     <<"GOOGLE_API_KEY", "google">>,
     <<"MISTRAL_API_KEY", "mistral">> >>

\* a variable no provider declares, for a userConfig reference { type: 'env', name }
UserEnvVar == "MY_KEY"

EnvVars == {ENV_HINTS[i][1] : i \in 1..Len(ENV_HINTS)} \cup {UserEnvVar}

----------------------------------------------------------------------------
(* Credentials (types/plugin.ts AuthCredential) *)

Cred(t, k, r, e, l) ==
  [type |-> t, key |-> k, refresh |-> r, expires |-> e, location |-> l]

\* the credential getAuth falls back to: { type: 'api' }
DefaultAuth == Cred("api", None, None, None, None)

\* normalizeCredential: an unrecognized type becomes 'api', an empty key is dropped
normalizeCredential(c) ==
  [c EXCEPT
     !.type = IF c.type \in {"api", "oauth", "wellknown"} THEN c.type ELSE "api",
     !.key = IF IsSome(c.key) /\ Len(Val(c.key)) > 0 THEN c.key ELSE None]

\* normalizeAuthState
normalizeAuthState(data) ==
  [p \in Providers |-> IF IsSome(data[p]) THEN Some(normalizeCredential(Val(data[p]))) ELSE None]

\* readAuthState: the caller's map as it is, or the stored document normalized
readAuthState(m, data) ==
  IF m = "external" THEN data ELSE normalizeAuthState(data)

\* writeAuthState: both media end up holding exactly the map written
writeAuthState(m, data) == data

\* readAuthState throws: JSON.parse of a stored document that is no JSON text
\* (the caller's own map is copied without parsing anything)
Unreadable(m, d) == m = "storage" /\ d # "json"

\* the callers of set and remove that a run follows
WriterIds == {1, 2}

\* a set or remove call after its read of the map: the copy it holds
PendingWrite(op, p, store, writing) ==
  [op |-> op, p |-> p, store |-> store, writing |-> writing]

NoPending == [i \in WriterIds |-> None]

\* Array.prototype.find over the positions of a list: the first of them, if any
FirstOf(creds, idx) ==
  IF idx = {} THEN None
  ELSE Some(creds[CHOOSE i \in idx : \A j \in idx : i <= j])

\* pickBestCredential
pickBestCredential(creds, prefer) ==
  IF Len(creds) = 0 THEN None
  ELSE LET preferred == FirstOf(creds, {i \in 1..Len(creds) :
                                         creds[i].type = prefer /\ IsSome(creds[i].key)})
           withKey == FirstOf(creds, {i \in 1..Len(creds) : IsSome(creds[i].key)})
       IN IF IsSome(preferred) THEN preferred
          ELSE IF IsSome(withKey) THEN withKey
          ELSE Some(creds[1])

\* `!merged[pid].key`: the key is undefined or the empty string
KeyFalsy(c) == ~IsSome(c.key) \/ Len(Val(c.key)) = 0

\* a merge in which a discovered candidate replaces even a stored credential
\* that has a key
mergeWithDiscoveredAlways(fileData, disc) ==
  [p \in Providers |->
     IF Len(disc[p]) > 0 THEN pickBestCredential(disc[p], "api") ELSE fileData[p]]

\* mergeWithDiscovered
mergeWithDiscovered(fileData, disc) ==
  [p \in Providers |->
     IF Len(disc[p]) > 0 /\ (~IsSome(fileData[p]) \/ KeyFalsy(Val(fileData[p])))
     THEN pickBestCredential(disc[p], "api")
     ELSE fileData[p]]

\* AuthStore.all
StoreAll(m, data, disc) == mergeWithDiscovered(readAuthState(m, data), disc)

\* AuthStore.get
StoreGet(m, data, disc, p) == StoreAll(m, data, disc)[p]

\* a set that, given the caller's own map, writes into a copy of it
StoreSetCopy(m, data, p, c) ==
  IF m = "external" THEN data
  ELSE writeAuthState(m, [readAuthState(m, data) EXCEPT ![p] = Some(c)])

\* AuthStore.set: read the map, replace one entry, write the map
StoreSet(m, data, p, c) ==
  writeAuthState(m, [readAuthState(m, data) EXCEPT ![p] = Some(c)])

\* a remove that deletes every entry of the map along with the one asked for
StoreRemoveClearing(m, data, p) ==
  LET store == readAuthState(m, data)
  IN IF ~IsSome(store[p]) THEN [data |-> data, writes |-> 0]
     ELSE [data |-> writeAuthState(m, [q \in Providers |-> None]), writes |-> 1]

\* AuthStore.remove: a provider absent from the map read returns before any
\* write; otherwise the entry is deleted and the map written
StoreRemove(m, data, p) ==
  LET store == readAuthState(m, data)
  IN IF ~IsSome(store[p]) THEN [data |-> data, writes |-> 0]
     ELSE [data |-> writeAuthState(m, [store EXCEPT ![p] = None]), writes |-> 1]

\* AuthStore.getPreferred
getPreferred(m, data, disc, p, prefer) ==
  IF Len(disc[p]) > 0
  THEN pickBestCredential(disc[p], prefer)
  ELSE StoreAll(m, data, disc)[p]

----------------------------------------------------------------------------
(* Network: requests sent and the answers of the two token endpoints *)

\* a request as it leaves the process: the endpoint, the token it carries (the
\* refresh token of a refresh request, else the bearer token of its Authorization
\* header) and the key-style headers it still has
Req(ep, tok, keys) == [ep |-> ep, tok |-> tok, keys |-> keys]

KeyHeaders == {"x-api-key", "x-goog-api-key"}

\* headers the standard client path hands to a transform
InHeaders ==
  { [auth |-> None, keys |-> {}],
    [auth |-> None, keys |-> {"x-api-key"}],
    [auth |-> Some(TokCodexDummy), keys |-> {}],
    [auth |-> None, keys |-> {"x-goog-api-key"}] }

\* the token endpoint's answer to a refresh request: a non-success status, a
\* network error, or a JSON body
RefreshFail(kind) ==
  [kind |-> kind, access_token |-> None, refresh_token |-> None, expires_in |-> None]

RefreshOk(a, r, e) ==
  [kind |-> "ok", access_token |-> a, refresh_token |-> r, expires_in |-> e]

RefreshResponses ==
  { RefreshFail("status"), RefreshFail("neterr"),
    RefreshOk(Some(TokOatNew), Some(TokOrt2), Some(1)),
    RefreshOk(Some(TokOatNew), None, None),
    RefreshOk(Some(TokApiDirect), Some(TokOrt2), Some(1)),
    RefreshOk(None, Some(TokOrt2), Some(1)) }

\* a token endpoint that rotates refresh tokens: the refresh token it accepts
\* now, and the one it hands out with the next access token
Rotated(r) == IF r = TokOrt1 THEN TokOrt2 ELSE TokOrt1

\* its answers to a refresh request carrying the credential's refresh token: a
\* new access token and the next refresh token for the token it accepts, a
\* non-success status for any other; the request may also fail on the way
EndpointAnswers(accepts, auth) ==
  {RefreshFail("neterr")}
    \cup (IF auth.refresh = Some(accepts)
          THEN {RefreshOk(Some(TokOatNew), Some(Rotated(accepts)), Some(1))}
          ELSE {RefreshFail("status")})

\* the key-exchange endpoint's answer
ExchangeFail(kind) == [kind |-> kind, raw_key |-> None]
ExchangeOk(k) == [kind |-> "ok", raw_key |-> k]

ExchangeResponses ==
  {ExchangeFail("status"), ExchangeFail("neterr"),
   ExchangeOk(Some(TokApiDerived)), ExchangeOk(Some(EmptyStr)), ExchangeOk(None)}

----------------------------------------------------------------------------
(* plugin/anthropic.ts *)

isOAuthToken(value) == StartsWith(value, PfxOat) \/ StartsWith(value, PfxOrt)

\* a shape test that never recognises a direct key
looksLikeApiKeyNever(value) == FALSE

looksLikeApiKey(value) ==
  IF isOAuthToken(value) THEN FALSE ELSE StartsWith(value, SkAnt)

\* refreshAccessToken (anthropic): the parsed TokenResponse of a success answer
AnthropicTokenResponse(rsp) ==
  [access_token |-> IF IsSome(rsp.access_token) THEN Val(rsp.access_token) ELSE EmptyStr,
   refresh_token |-> rsp.refresh_token,
   expires_in |-> rsp.expires_in]

\* a refresh test that ignores the clock
NeedsRefreshIgnoringClock(auth, t) ==
  /\ IsSome(auth.expires)
  /\ IsSome(auth.refresh)

\* `expires !== undefined && expires < Date.now() && typeof refresh === 'string'`
NeedsRefresh(auth, t) ==
  /\ IsSome(auth.expires)
  /\ Val(auth.expires) < t
  /\ IsSome(auth.refresh)

\* a refreshed credential that keeps the refresh token it had
\* a refresh that leaves the expiry of the credential as it was
RefreshedCredentialOldExpiry(auth, t, tr) ==
  [auth EXCEPT
     !.key = Some(tr.access_token),
     !.refresh = IF IsSome(tr.refresh_token) THEN tr.refresh_token ELSE auth.refresh]

RefreshedCredentialOldRefresh(auth, t, tr) ==
  [auth EXCEPT
     !.key = Some(tr.access_token),
     !.expires = IF IsSome(tr.expires_in) THEN Some(t + Val(tr.expires_in) * 1000) ELSE None]

\* the credential resolveOAuthToken hands to setAuth after a refresh
RefreshedCredential(auth, t, tr) ==
  [auth EXCEPT
     !.key = Some(tr.access_token),
     !.refresh = IF IsSome(tr.refresh_token) THEN tr.refresh_token ELSE auth.refresh,
     !.expires = IF IsSome(tr.expires_in) THEN Some(t + Val(tr.expires_in) * 1000) ELSE None]

NonEmpty(tok) == IF IsSome(tok) /\ Len(Val(tok)) > 0 THEN tok ELSE None

\* a resolution that gives up the stored token when the refresh fails
resolveOAuthTokenDroppingStale(auth, t, rsp) ==
  IF IsSome(auth.expires) /\ Val(auth.expires) < t /\ IsSome(auth.refresh)
  THEN LET req == Req("refresh", auth.refresh, {})
       IN IF rsp.kind = "ok"
          THEN LET a == IF IsSome(rsp.access_token) THEN Val(rsp.access_token) ELSE EmptyStr
               IN [token |-> IF Len(a) > 0 THEN Some(a) ELSE None,
                   net |-> <<req>>,
                   sets |-> <<[auth EXCEPT
                                 !.key = Some(a),
                                 !.refresh = IF IsSome(rsp.refresh_token)
                                             THEN rsp.refresh_token ELSE auth.refresh,
                                 !.expires = IF IsSome(rsp.expires_in)
                                             THEN Some(t + Val(rsp.expires_in) * 1000)
                                             ELSE None]>>]
          ELSE [token |-> None, net |-> <<req>>, sets |-> <<[auth EXCEPT !.key = None]>>]
  ELSE [token |-> IF IsSome(auth.key) /\ Len(Val(auth.key)) > 0 THEN auth.key ELSE None,
        net |-> <<>>, sets |-> <<>>]

\* resolveOAuthToken(auth, setAuth): the token, the requests sent, the
\* credentials handed to setAuth
resolveOAuthToken(auth, t, rsp) ==
  IF NeedsRefresh(auth, t)
  THEN LET req == Req("refresh", auth.refresh, {})
       IN IF rsp.kind = "ok"
          THEN LET tr == AnthropicTokenResponse(rsp)
               IN [token |-> NonEmpty(Some(tr.access_token)),
                   net |-> <<req>>,
                   sets |-> <<RefreshedCredential(auth, t, tr)>>]
          ELSE [token |-> NonEmpty(auth.key), net |-> <<req>>, sets |-> <<>>]
  ELSE [token |-> NonEmpty(auth.key), net |-> <<>>, sets |-> <<>>]

\* a key exchange that accepts whatever a success answer carries
createApiKeyAnyAnswer(ex) ==
  IF ex.kind = "ok"
  THEN IF IsSome(ex.raw_key) THEN ex.raw_key ELSE Some(EmptyStr)
  ELSE None

\* createApiKeyFromOAuthAccessToken: the derived key, or none when it throws
createApiKeyFromOAuthAccessToken(ex) ==
  IF ex.kind = "ok" /\ IsSome(ex.raw_key) /\ Len(Val(ex.raw_key)) > 0
  THEN ex.raw_key
  ELSE None

\* what a loader returns (merged into the SDK options by buildProviderState)
Opts(apiKey, beta, fetch, baseURL) ==
  [apiKey |-> apiKey, beta |-> beta, fetch |-> fetch, baseURL |-> baseURL]

NoOpts == Opts(None, FALSE, "none", FALSE)

\* one run of a loader or of a transform
Run(auth, token, net, sets, opts, threw) ==
  [ran |-> TRUE, auth |-> auth, token |-> token, net |-> net, sets |-> sets,
   opts |-> opts, threw |-> threw]

NoRun ==
  [ran |-> FALSE, auth |-> DefaultAuth, token |-> None, net |-> <<>>, sets |-> <<>>,
   opts |-> NoOpts, threw |-> FALSE]

BearerFallback == Opts(None, TRUE, "anthropic", FALSE)

\* a loader for which a refused key exchange is fatal
AnthropicLoaderExchangeFatal(auth, t, rsp, ex) ==
  IF auth.type # "oauth" THEN Run(auth, None, <<>>, <<>>, NoOpts, FALSE)
  ELSE
    LET r == resolveOAuthToken(auth, t, rsp)
    IN IF IsSome(r.token)
       THEN IF looksLikeApiKey(Val(r.token))
            THEN Run(auth, r.token, r.net, r.sets, Opts(r.token, FALSE, "none", FALSE), FALSE)
            ELSE LET apiKey == createApiKeyFromOAuthAccessToken(ex)
                     net == Append(r.net, Req("exchange", r.token, {}))
                 IN IF IsSome(apiKey)
                    THEN Run(auth, r.token, net, r.sets, Opts(apiKey, FALSE, "none", FALSE), FALSE)
                    ELSE Run(auth, r.token, net, r.sets, NoOpts, TRUE)
       ELSE Run(auth, r.token, r.net, r.sets, BearerFallback, FALSE)

\* anthropicPlugin.loader
AnthropicLoader(auth, t, rsp, ex) ==
  IF auth.type # "oauth" THEN Run(auth, None, <<>>, <<>>, NoOpts, FALSE)
  ELSE
    LET r == resolveOAuthToken(auth, t, rsp)
    IN IF IsSome(r.token)
       THEN IF looksLikeApiKey(Val(r.token))
            THEN Run(auth, r.token, r.net, r.sets, Opts(r.token, FALSE, "none", FALSE), FALSE)
            ELSE LET apiKey == createApiKeyFromOAuthAccessToken(ex)
                     net == Append(r.net, Req("exchange", r.token, {}))
                 IN IF IsSome(apiKey)
                    THEN Run(auth, r.token, net, r.sets, Opts(apiKey, FALSE, "none", FALSE), FALSE)
                    ELSE Run(auth, r.token, net, r.sets, BearerFallback, FALSE)
       ELSE Run(auth, r.token, r.net, r.sets, BearerFallback, FALSE)

\* applyBearerHeaders: x-api-key and authorization removed, Authorization set
applyBearerHeaders(hdrs, token) ==
  [auth |-> Some(token), keys |-> hdrs.keys \ {"x-api-key"}]

\* the bearer fallback's fetch: the credential is read again on every call
AnthropicFetch(currentAuth, t, rsp, hdrs) ==
  LET r == resolveOAuthToken(currentAuth, t, rsp)
      h == applyBearerHeaders(hdrs, IF IsSome(r.token) THEN Val(r.token) ELSE EmptyStr)
  IN Run(currentAuth, r.token, Append(r.net, Req("api", h.auth, h.keys)), r.sets,
         NoOpts, FALSE)

----------------------------------------------------------------------------
(* plugin/codex.ts, plugin/google.ts, plugin/copilot.ts *)

\* parseTokenResponse (codex, google): access_token: String(raw.access_token ?? '')
ParsedAccessToken(rsp) ==
  IF IsSome(rsp.access_token) THEN Val(rsp.access_token) ELSE EmptyStr

\* `x ?? ''`
OrEmpty(tok) == IF IsSome(tok) THEN Val(tok) ELSE EmptyStr

\* codexPlugin.loader: a placeholder key and a transform for an oauth credential
CodexLoader(auth) ==
  IF auth.type # "oauth" THEN Run(auth, None, <<>>, <<>>, NoOpts, FALSE)
  ELSE Run(auth, None, <<>>, <<>>, Opts(Some(TokCodexDummy), FALSE, "codex", FALSE), FALSE)

\* codexPlugin.loader fetch: the refreshed credential stays in a local variable
CodexFetch(currentAuth, t, rsp, hdrs) ==
  LET refreshing == NeedsRefresh(currentAuth, t)
      net == IF refreshing THEN <<Req("refresh", currentAuth.refresh, {})>> ELSE <<>>
      token == IF refreshing /\ rsp.kind = "ok"
               THEN ParsedAccessToken(rsp)
               ELSE OrEmpty(currentAuth.key)
  IN Run(currentAuth, Some(token), Append(net, Req("api", Some(token), hdrs.keys)),
         <<>>, NoOpts, FALSE)

\* googlePlugin.loader
GoogleLoader(auth) ==
  IF auth.type # "oauth" THEN Run(auth, None, <<>>, <<>>, NoOpts, FALSE)
  ELSE Run(auth, None, <<>>, <<>>, Opts(Some(TokGooglePlaceholder), FALSE, "google", FALSE), FALSE)

\* googlePlugin.loader fetch; `rewritten` is parseGenerativeAction's verdict on the
\* URL and `project` whether resolveProjectId finds a project id
GoogleFetch(latestAuth, t, rsp, hdrs, rewritten, project) ==
  IF latestAuth.type # "oauth"
  THEN Run(latestAuth, None, <<Req("api", hdrs.auth, hdrs.keys)>>, <<>>, NoOpts, FALSE)
  ELSE
    LET refreshing == NeedsRefresh(latestAuth, t)
        net == IF refreshing THEN <<Req("refresh", latestAuth.refresh, {})>> ELSE <<>>
        token == IF refreshing /\ rsp.kind = "ok"
                 THEN ParsedAccessToken(rsp)
                 ELSE OrEmpty(latestAuth.key)
        keys == hdrs.keys \ {"x-goog-api-key", "x-api-key"}
    IN IF rewritten /\ ~project
       THEN Run(latestAuth, Some(token), net, <<>>, NoOpts, TRUE)
       ELSE Run(latestAuth, Some(token), Append(net, Req("api", Some(token), keys)),
                <<>>, NoOpts, FALSE)

\* copilotPlugin.loader: whatever the credential, a base URL, apiKey '' and a transform
CopilotLoader(auth) ==
  Run(auth, None, <<>>, <<>>, Opts(Some(EmptyStr), FALSE, "copilot", TRUE), FALSE)

\* copilotPlugin.loader fetch: Bearer ${auth.refresh ?? auth.key ?? ''}
CopilotFetch(auth, hdrs) ==
  LET token == IF IsSome(auth.refresh) THEN Val(auth.refresh) ELSE OrEmpty(auth.key)
  IN Run(auth, Some(token), <<Req("api", Some(token), hdrs.keys \ {"x-api-key"})>>,
         <<>>, NoOpts, FALSE)

\* plugin/index.ts, provider/index.ts: the handlers createProviderStore registers
Registered == {"anthropic", "openai", "google", "github-copilot"}

\* loadPluginOptions: the registered handler's loader
loadPluginOptions(p, auth, t, rsp, ex) ==
  CASE p = "anthropic" -> AnthropicLoader(auth, t, rsp, ex)
    [] p = "openai" -> CodexLoader(auth)
    [] p = "google" -> GoogleLoader(auth)
    [] p = "github-copilot" -> CopilotLoader(auth)
    [] OTHER -> NoRun

----------------------------------------------------------------------------
(* provider/state.ts *)

\* a SecretRef: a bare string, { type: 'plain', value }, { type: 'env', name } or
\* { type: 'storage', key }
SecretRef(type, value, name) == [type |-> type, value |-> value, name |-> name]

\* resolveSecretRef
resolveSecretRef(ref, e) ==
  CASE ref.type = "string" -> Some(ref.value)
    [] ref.type = "plain" -> Some(ref.value)
    [] ref.type = "env" -> e[ref.name]
    [] OTHER -> None

\* ProviderState, with the options the model follows: the transform installed
\* (fetch), the token a transform captured when it was built (fetchTok), the
\* anthropic-beta header (beta), the layer that set the base URL, and authCred,
\* the entry of authStore.all() that the getAuth closure keeps
ProviderState(key, source, location, fetch, fetchTok, beta, baseURL) ==
  [key |-> key, source |-> source, location |-> location, fetch |-> fetch,
   fetchTok |-> fetchTok, beta |-> beta, baseURL |-> baseURL, authCred |-> None]

\* the first declared variable that is set (val !== undefined), if any
FirstSetEnv(p, e) ==
  LET names == CatalogEnv(p)
      idx == {i \in 1..Len(names) : IsSome(e[names[i]])}
  IN IF idx = {} THEN None
     ELSE Some(names[CHOOSE i \in idx : \A j \in idx : i <= j])

\* getAuth of buildProviderState: getPreferred(pid, 'oauth') ?? authCred ?? { type: 'api' }
getAuth(m, data, disc, p, authCred) ==
  LET preferred == getPreferred(m, data, disc, p, "oauth")
  IN IF IsSome(preferred) THEN Val(preferred)
     ELSE IF IsSome(authCred) THEN Val(authCred)
     ELSE DefaultAuth

\* setAuth of buildProviderState, for every credential a run handed to it
RECURSIVE ApplySets(_, _, _, _)
ApplySets(m, data, p, sets) ==
  IF sets = <<>> THEN data
  ELSE ApplySets(m, StoreSet(m, data, p, Head(sets)), p, Tail(sets))

\* the loop body of buildProviderState for provider p, layer by layer
EnvLayer(p, e) ==
  LET hit == FirstSetEnv(p, e)
  IN IF IsSome(hit)
     THEN ProviderState(e[Val(hit)], "env", Some(<<"env", Val(hit)>>), "none", None, FALSE, "none")
     ELSE ProviderState(None, "none", None, "none", None, FALSE, "none")

\* an auth layer that leaves the environment's key in place
AuthLayerBelowEnv(p, st, authCred) ==
  IF st.source = "env" THEN st
  ELSE IF IsSome(authCred) /\ IsSome(Val(authCred).key)
  THEN [st EXCEPT !.key = Val(authCred).key, !.source = "auth",
                  !.location = Val(authCred).location]
  ELSE st

AuthLayer(p, st, authCred) ==
  IF IsSome(authCred) /\ IsSome(Val(authCred).key)
  THEN LET c == Val(authCred)
           static == c.type = "oauth" /\ BundledProvider(p) \in GOOGLE_PROVIDERS
       IN [st EXCEPT !.key = c.key, !.source = "auth", !.location = c.location,
                     !.fetch = IF static THEN "static" ELSE st.fetch,
                     !.fetchTok = IF static THEN c.key ELSE st.fetchTok]
  ELSE st

PluginLayer(p, st, run, resolvedAuth) ==
  IF p \notin Registered THEN st
  ELSE [st EXCEPT
          !.key = IF IsSome(run.opts.apiKey) THEN run.opts.apiKey ELSE st.key,
          !.source = IF IsSome(run.opts.apiKey) THEN "plugin" ELSE st.source,
          !.location = IF IsSome(resolvedAuth.location) THEN resolvedAuth.location
                       ELSE st.location,
          !.fetch = IF run.opts.fetch # "none" THEN run.opts.fetch ELSE st.fetch,
          !.beta = run.opts.beta \/ st.beta,
          !.baseURL = IF run.opts.baseURL THEN "plugin" ELSE st.baseURL]

\* a config layer that only fills in a missing key
ConfigLayerFillOnly(st, cfg, e) ==
  IF ~IsSome(cfg) \/ IsSome(st.key) THEN st
  ELSE LET c == Val(cfg)
           resolved == IF IsSome(c.apiKey) THEN resolveSecretRef(Val(c.apiKey), e) ELSE None
       IN [st EXCEPT
             !.key = IF IsSome(resolved) THEN resolved ELSE st.key,
             !.source = IF IsSome(resolved) THEN "config" ELSE st.source]

ConfigLayer(st, cfg, e) ==
  IF ~IsSome(cfg) THEN st
  ELSE LET c == Val(cfg)
           resolved == IF IsSome(c.apiKey) THEN resolveSecretRef(Val(c.apiKey), e) ELSE None
       IN [st EXCEPT
             !.key = IF IsSome(resolved) THEN resolved ELSE st.key,
             !.source = IF IsSome(resolved) THEN "config" ELSE st.source,
             !.baseURL = IF c.baseURL THEN "config" ELSE st.baseURL]

\* buildProviderState for one provider: its state, the loader's run and the
\* persisted map after the loader's setAuth calls
BuildOne(p, m, data, disc, e, cfg, t, rsp, ex) ==
  LET authCred == StoreAll(m, data, disc)[p]
      run == IF p \in Registered
             THEN loadPluginOptions(p, getAuth(m, data, disc, p, authCred), t, rsp, ex)
             ELSE NoRun
      data2 == ApplySets(m, data, p, run.sets)
      resolvedAuth == getAuth(m, data2, disc, p, authCred)
      st == ConfigLayer(
              PluginLayer(p, AuthLayer(p, EnvLayer(p, e), authCred), run, resolvedAuth),
              cfg, e)
  IN [state |-> [st EXCEPT !.authCred = authCred], run |-> run, data |-> data2]

----------------------------------------------------------------------------
(* auth/scanners.ts runDiskScanners, auth/store.ts discover *)

\* a DiskScanResult
DiskScanResult(pid, source, key, credentialType, refresh, expires) ==
  [providerId |-> pid, source |-> source, key |-> key,
   credentialType |-> credentialType, refresh |-> refresh, expires |-> expires]

\* one scanner's scan(): it throws, or returns what it found
Scan(throws, found) == [throws |-> throws, found |-> found]

\* a run of the scanners that ends at the first scanner that throws
RECURSIVE runDiskScannersAborting(_)
runDiskScannersAborting(scans) ==
  IF scans = <<>> \/ Head(scans).throws THEN <<>>
  ELSE Head(scans).found \o runDiskScannersAborting(Tail(scans))

\* runDiskScanners: the results of the scanners that did not throw, in order
RECURSIVE runDiskScanners(_)
runDiskScanners(scans) ==
  IF scans = <<>> THEN <<>>
  ELSE (IF Head(scans).throws THEN <<>> ELSE Head(scans).found)
         \o runDiskScanners(Tail(scans))

\* a DiscoveredCredential of the list discover() returns
Discovered(pid, source, key, location, credential) ==
  [providerId |-> pid, source |-> source, key |-> key, location |-> location,
   credential |-> credential]

\* the running state of one discover() call: the list built so far, the
\* providers seen, and discoveredCredentials
pushDiscoveredCredential(d, pid, cred) ==
  [d EXCEPT !.disc[pid] = Append(@, cred)]

\* a push that does not look at the providers already seen
pushDiscoveredResultAlways(d, result) ==
  [d EXCEPT !.seen = @ \cup {result.providerId}, !.results = Append(@, result)]

pushDiscoveredResultOnce(d, result) ==
  IF result.providerId \in d.seen THEN d
  ELSE [d EXCEPT !.seen = @ \cup {result.providerId}, !.results = Append(@, result)]

buildCredentialFromEnv(envVar, key) ==
  Cred("api", Some(key), None, None, Some(<<"env", envVar>>))

buildCredentialFromDisk(result) ==
  IF ~IsSome(result.key) THEN None
  ELSE Some(Cred(IF IsSome(result.credentialType) THEN Val(result.credentialType) ELSE "api",
                 result.key, result.refresh, result.expires, Some(result.source)))

\* the environment probe: every hint whose variable holds a non-empty value
RECURSIVE EnvProbe(_, _, _)
EnvProbe(d, e, i) ==
  IF i > Len(ENV_HINTS) THEN d
  ELSE LET envVar == ENV_HINTS[i][1]
           pid == ENV_HINTS[i][2]
           value == e[envVar]
       IN IF IsSome(value) /\ Len(Val(value)) > 0
          THEN EnvProbe(
                 pushDiscoveredResultOnce(
                   pushDiscoveredCredential(d, pid, buildCredentialFromEnv(envVar, Val(value))),
                   Discovered(pid, "env", value, None, None)),
                 e, i + 1)
          ELSE EnvProbe(d, e, i + 1)

\* the disk probe over runDiskScanners' results
RECURSIVE DiskProbe(_, _)
DiskProbe(d, diskResults) ==
  IF diskResults = <<>> THEN d
  ELSE LET disk == Head(diskResults)
           d1 == pushDiscoveredResultOnce(
                   d, Discovered(disk.providerId, "disk", disk.key, Some(disk.source), None))
           cred == buildCredentialFromDisk(disk)
           d2 == IF IsSome(cred) THEN pushDiscoveredCredential(d1, disk.providerId, Val(cred))
                 ELSE d1
       IN DiskProbe(d2, Tail(diskResults))

\* `existing?.key`: a stored credential with a non-empty key
HasKey(oc) == IsSome(oc) /\ ~KeyFalsy(Val(oc))

\* persistDiscoveredCredentials: the map after it
persistDiscoveredCredentials(m, data, disc) ==
  LET store == readAuthState(m, data)
      fill == {p \in Providers : Len(disc[p]) > 0 /\ ~HasKey(store[p])}
  IN IF fill = {} THEN data
     ELSE writeAuthState(m,
            [p \in Providers |->
               IF p \in fill THEN pickBestCredential(disc[p], "api") ELSE store[p]])

\* persistDiscoveredCredentials: the number of providers it fills, which it
\* returns; it writes the map only when that number is positive
persistedCount(m, data, disc) ==
  Cardinality({p \in Providers :
                 Len(disc[p]) > 0 /\ ~HasKey(readAuthState(m, data)[p])})

\* the order in which the stored entries are listed
ProviderOrder == <<"anthropic", "openai", "google", "github-copilot", "mistral">>

\* the store probe: every stored provider not seen yet
RECURSIVE StoreProbe(_, _, _)
StoreProbe(d, authData, i) ==
  IF i > Len(ProviderOrder) THEN d
  ELSE LET pid == ProviderOrder[i]
       IN IF IsSome(authData[pid])
          THEN StoreProbe(
                 pushDiscoveredResultOnce(d, Discovered(pid, "auth", None, None, authData[pid])),
                 authData, i + 1)
          ELSE StoreProbe(d, authData, i + 1)

\* a discover() that lists the stored entries first, before the probes and
\* before persisting
discoverStoreFirst(m, data, disc, e, skipEnvScan, skipDiskScan, persist, scans) ==
  LET d0 == StoreProbe([results |-> <<>>, seen |-> {}, disc |-> disc],
                       readAuthState(m, data), 1)
      d1 == IF skipEnvScan THEN d0 ELSE EnvProbe(d0, e, 1)
      d2 == IF skipDiskScan THEN d1 ELSE DiskProbe(d1, runDiskScanners(scans))
      data2 == IF persist THEN persistDiscoveredCredentials(m, data, d2.disc) ELSE data
  IN [results |-> d2.results, disc |-> d2.disc, data |-> data2,
      writes |-> IF persist /\ persistedCount(m, data, d2.disc) > 0 THEN 1 ELSE 0]

\* AuthStore.discover(options): the list returned, discoveredCredentials and the
\* persisted map after the call, and the number of writes of the map
discover(m, data, disc, e, skipEnvScan, skipDiskScan, persist, scans) ==
  LET d0 == [results |-> <<>>, seen |-> {}, disc |-> disc]
      d1 == IF skipEnvScan THEN d0 ELSE EnvProbe(d0, e, 1)
      d2 == IF skipDiskScan THEN d1 ELSE DiskProbe(d1, runDiskScanners(scans))
      data2 == IF persist THEN persistDiscoveredCredentials(m, data, d2.disc) ELSE data
      d3 == StoreProbe(d2, readAuthState(m, data2), 1)
  IN [results |-> d3.results, disc |-> d3.disc, data |-> data2,
      writes |-> IF persist /\ persistedCount(m, data, d2.disc) > 0 THEN 1 ELSE 0]

----------------------------------------------------------------------------
(* auth/resolver.ts *)

\* the outcome of a call: a value returned, or an error thrown
Returned(value) == [threw |-> FALSE, value |-> Some(value)]
Thrown == [threw |-> TRUE, value |-> None]

\* a resolver that answers the empty string where the variable is unset
resolveLenient(ref, e, storage) ==
  CASE ref.type \in {"string", "plain"} -> Returned(ref.value)
    [] ref.type = "env" ->
         IF IsSome(e[ref.name]) THEN Returned(Val(e[ref.name])) ELSE Returned(EmptyStr)
    [] ref.type = "storage" ->
         IF ~IsSome(storage) THEN Thrown
         ELSE IF IsSome(Val(storage)[ref.name]) THEN Returned(Val(Val(storage)[ref.name]))
         ELSE Thrown
    [] OTHER -> Thrown

\* createSecretResolver(storage).resolve(ref); a storage reference carries its
\* key in the name field
resolve(ref, e, storage) ==
  CASE ref.type \in {"string", "plain"} -> Returned(ref.value)
    [] ref.type = "env" ->
         IF IsSome(e[ref.name]) THEN Returned(Val(e[ref.name])) ELSE Thrown
    [] ref.type = "storage" ->
         IF ~IsSome(storage) THEN Thrown
         ELSE IF IsSome(Val(storage)[ref.name]) THEN Returned(Val(Val(storage)[ref.name]))
         ELSE Thrown
    [] OTHER -> Thrown

----------------------------------------------------------------------------
(* Device authorization: plugin/codex.ts, plugin/copilot.ts *)

\* pollDeviceAuthorizationCode: const maxPolls = 120
maxPolls == 120

\* a device authorization: the handler running it, the polls sent so far, and
\* where it stands
Flow(handler, polls, status) == [handler |-> handler, polls |-> polls, status |-> status]

NoFlow == Flow("none", 0, "idle")

\* what the codex token endpoint answers to a poll: the code, an answer without
\* the code, 403 or 404 (pending), 403 with the security-gate message, any
\* other status
CodexPollAnswers == {"ok", "incomplete", "pending403", "pending404", "gate", "status"}

\* one pass of pollDeviceAuthorizationCode's loop: past maxPolls it throws the
\* timeout error, else it waits, polls and returns, continues or throws
pollDeviceAuthorizationCode(f, answer) ==
  IF f.polls >= maxPolls THEN [f EXCEPT !.status = "timeout"]
  ELSE [f EXCEPT !.polls = @ + 1,
                 !.status = CASE answer = "ok" -> "token"
                              [] answer \in {"pending403", "pending404"} -> "polling"
                              [] OTHER -> "error"]

\* what the GitHub token endpoint answers to a poll
CopilotPollAnswers == {"token", "authorization_pending", "slow_down", "error"}

\* one pass of pollForToken's `while (true)` loop
pollForToken(f, answer) ==
  [f EXCEPT !.polls = @ + 1,
            !.status = CASE answer = "token" -> "token"
                         [] answer \in {"authorization_pending", "slow_down"} -> "polling"
                         [] OTHER -> "error"]

\* what the user pastes into the authorization-code flow: nothing, an
\* http(s) URL that parses or does not, a query string, or any other text;
\* for a URL or a query string, its code and state parameters
CallbackInputs ==
  LET raw == Chars("r", "a", "w")
      codes == {None, Some(EmptyStr), Some(Chars("c", "o", "d"))}
      states == {None, Some(Chars("s", "t", "1")), Some(Chars("s", "t", "2"))}
  IN {[form |-> "empty", code |-> None, state |-> None, raw |-> EmptyStr]}
       \cup {[form |-> f, code |-> None, state |-> None, raw |-> raw] : f \in {"badurl", "text"}}
       \cup {[form |-> f, code |-> c, state |-> st, raw |-> raw] :
               f \in {"url", "query"}, c \in codes, st \in states}

\* parseCallbackInput
parseCallbackInput(value) ==
  CASE value.form = "empty" -> [code |-> None, state |-> None]
    [] value.form = "url" -> [code |-> value.code, state |-> value.state]
    [] value.form = "badurl" -> [code |-> None, state |-> None]
    [] value.form = "query" /\ (IsSome(value.code) \/ IsSome(value.state)) ->
         [code |-> value.code, state |-> value.state]
    [] OTHER -> [code |-> Some(value.raw), state |-> None]

\* a handler that sends the exchange whatever state the callback carries
authorizeAnyState(callbackInput, state) ==
  LET parsed == parseCallbackInput(callbackInput)
  IN IF ~IsSome(parsed.code) \/ parsed.code = Some(EmptyStr)
       THEN [threw |-> TRUE, exchange |-> <<>>]
     ELSE [threw |-> FALSE, exchange |-> <<[code |-> Val(parsed.code), state |-> state]>>]

\* methods[0].handler of the anthropic and google handlers, up to the exchange
\* request: `state` is authRequest.state
authorize(callbackInput, state) ==
  LET parsed == parseCallbackInput(callbackInput)
  IN IF ~IsSome(parsed.code) \/ parsed.code = Some(EmptyStr)
       THEN [threw |-> TRUE, exchange |-> <<>>]
     ELSE IF IsSome(parsed.state) /\ Val(parsed.state) # state
       THEN [threw |-> TRUE, exchange |-> <<>>]
     ELSE [threw |-> FALSE, exchange |-> <<[code |-> Val(parsed.code), state |-> state]>>]

----------------------------------------------------------------------------
(* provider/index.ts: the catalog refresh task and the state cache *)

\* catalogRefreshTask ("none" while null, then the promise: running, then
\* settled with the refresh's success or failure), the remote fetches issued,
\* the number of changes made to the catalog, and for the state cache the
\* catalog it was built from and how often a state was built
Catalog(task, fetches, version, builtFrom, builds) ==
  [task |-> task, fetches |-> fetches, version |-> version, builtFrom |-> builtFrom,
   builds |-> builds]

\* the state cache holding a promise that was rejected
Rejected == Some("rejected")

\* a store whose catalog refresh has been done
CatalogReady == Catalog("ok", 1, 0, 0 - 1, 0)

\* a store just created
CatalogNew == Catalog("none", 0, 0, 0 - 1, 0)

\* the calls a run follows
CallIds == {1, 2}

NoCalls == [i \in CallIds |-> "idle"]

\* no request under way, the stored refresh token being the accepted one
NoRotation == [accepts |-> TokOrt1, held |-> [i \in CallIds |-> None]]

\* the providers whose bundled client checkProviderUsable finds installed
InstalledChoices == {Providers, {"anthropic", "google"}}

\* a listing that leaves out the test of the source
listProvidersInstalled(state, installed) == installed

\* listProviders without includeUnavailable: the installed providers that
\* hasProviderAuth accepts, those whose source is not none
listProviders(state, installed) ==
  {p \in installed : state[p].source # "none"}

\* a getState that builds on every call
StateMissingAlways(cache) == TRUE

\* getState: `if (stateCache === null)`, tested and followed by the assignment
\* of the promise of the build with no await in between
StateMissing(cache) == cache = None

\* a store that starts a refresh on every call made before one has settled
ensureCatalogEnrichedEachCall(c) ==
  IF c.task \in {"none", "running"}
    THEN [c EXCEPT !.task = "running", !.fetches = @ + 1]
    ELSE c

\* ensureCatalogEnriched, up to its await: the first call creates the task,
\* which issues the fetch of Catalog.refresh
ensureCatalogEnriched(c) ==
  IF c.task = "none" THEN [c EXCEPT !.task = "running", !.fetches = @ + 1] ELSE c

----------------------------------------------------------------------------
(* The state machine *)

\* milliseconds per second: `expires_in * 1000`
SecondMs == 1000

StartMs == 2 * SecondMs
PastMs == 1 * SecondMs
SoonMs == StartMs + SecondMs \div 2

\* the record of an operation: its name, provider and time, the persisted map
\* before it, the handler runs it made, what it returned, and the answers the
\* token endpoints gave to the requests it sent
Op(op, p, at, before, runs, ret) ==
  [op |-> op, p |-> p, at |-> at, before |-> before, runs |-> runs, ret |-> ret,
   rsp |-> RefreshFail("status"), ex |-> ExchangeFail("status"),
   args |-> <<>>, writes |-> 0, threw |-> FALSE]

NoRuns == [q \in Providers |-> NoRun]

\* credentials a run starts with in the store
OAuthLifetimes ==
  { <<None, None>>, <<Some(TokOrt1), Some(PastMs)>>,
    <<Some(TokOrt1), Some(SoonMs)>>, <<None, Some(PastMs)>> }

InitCreds(p) ==
  {Cred("api", Some(TokApiDirect), None, None, None)}
    \cup (IF p = "anthropic"
          THEN {Cred("oauth", Some(TokOatOld), l[1], l[2], None) : l \in OAuthLifetimes}
                 \cup {Cred("oauth", Some(TokApiDirect), None, None, None),
                       Cred("oauth", Some(TokApiDirect), Some(TokOrt1), Some(PastMs), None),
                       Cred("oauth", None, Some(TokOrt1), Some(PastMs), None)}
          ELSE IF p \in {"openai", "google"}
          THEN {Cred("oauth", Some(TokOatOld), l[1], l[2], None) : l \in OAuthLifetimes}
          ELSE IF p = "github-copilot"
          THEN {Cred("oauth", Some(TokOatOld), Some(TokOatOld), Some(0), None)}
          ELSE {})

\* values an environment variable holds: unset, a key, or the empty string
EnvValues(v) ==
  {None, Some(EmptyStr), Some(IF v = "GOOGLE_API_KEY" THEN TokEnv2 ELSE TokEnv)}

\* the caller's configuration of a provider, with the value of the variable an
\* environment reference names
ConfigChoices ==
  { <<None, None>>,
    <<Some([apiKey |-> Some(SecretRef("plain", TokCfg, "-")), baseURL |-> TRUE]), None>>,
    <<Some([apiKey |-> Some(SecretRef("env", EmptyStr, UserEnvVar)), baseURL |-> FALSE]), None>>,
    <<Some([apiKey |-> Some(SecretRef("env", EmptyStr, UserEnvVar)), baseURL |-> FALSE]),
      Some(TokCfg)>>,
    <<Some([apiKey |-> Some(SecretRef("storage", EmptyStr, "-")), baseURL |-> FALSE]), None>> }

\* what the scanners find on disk for provider p
DiskChoices(p) ==
  { <<>>,
    <<Scan(FALSE, <<DiskScanResult(p, <<"disk", "a">>, Some(TokOatOld), Some("oauth"),
                                   Some(TokOrt1), Some(PastMs))>>)>>,
    <<Scan(TRUE, <<>>),
      Scan(FALSE, <<DiskScanResult(p, <<"disk", "b">>, None, None, None, None),
                    DiskScanResult(p, <<"disk", "c">>, Some(TokDisk), None, None, None)>>)>> }

Declares(p, v) == \E i \in 1..Len(CatalogEnv(p)) : CatalogEnv(p)[i] = v

\* One run configures one provider f: its declared variables (from envs), its
\* stored credential (from creds) and the caller's configuration (from configs).
InitWith(f, modes, envs, creds, configs, disks) ==
  \E cc \in configs :
    /\ mode \in modes
    /\ diskFiles \in disks
    /\ env \in {e \in [EnvVars -> envs \cup {None, cc[2]}] :
                  \A v \in EnvVars :
                    IF v = UserEnvVar THEN e[v] = cc[2]
                    ELSE IF Declares(f, v) THEN e[v] \in EnvValues(v) \cap envs
                    ELSE e[v] = None}
    /\ userConfig = [p \in Providers |-> IF p = f THEN cc[1] ELSE None]
    /\ persisted \in {[p \in Providers |-> IF p = f THEN c ELSE None] :
                        c \in {None} \cup {Some(x) : x \in creds}}
    /\ discovered = [p \in Providers |-> <<>>]
    /\ now = StartMs
    /\ stateCache = None
    /\ last = Op("init", "-", StartMs, persisted, NoRuns, <<>>)

\* nothing else is going on: no device authorization, no resolver storage, the
\* catalog refreshed, no call in progress, a stored document that parses
Quiet ==
  /\ flow = NoFlow
  /\ rotation = NoRotation
  /\ kv = None
  /\ catalog = CatalogReady
  /\ calls = NoCalls
  /\ doc = "json"
  /\ pending = NoPending

\* the token lifecycle: every credential of a provider with a handler, in both
\* kinds of store, with no variable set and no caller configuration
Init ==
  \E f \in Registered :
    /\ InitWith(f, {"external", "storage"}, {None}, InitCreds(f), {<<None, None>>},
                {d \in DiskChoices(f) : Len(d) < 2})
    /\ Quiet

\* authStore.discover(options)
Discover ==
  \E skipEnvScan \in BOOLEAN, skipDiskScan \in BOOLEAN, persist \in BOOLEAN :
      LET unreadable == Unreadable(mode, doc)
          \* a failed read at the end of discover counts as an empty map
          r == discover(mode, IF unreadable THEN [q \in Providers |-> None] ELSE persisted,
                        discovered, env, skipEnvScan, skipDiskScan, persist, diskFiles)
          \* the read of persistDiscoveredCredentials is not guarded
          threw == unreadable /\ persist /\ \E q \in Providers : r.disc[q] # <<>>
      IN /\ \A q \in Providers : Len(discovered[q]) < MaxDiscovered
         /\ discovered' = r.disc
         /\ persisted' = IF unreadable THEN persisted ELSE r.data
         /\ last' = [Op("discover", "-", now, persisted, NoRuns,
                         IF threw THEN <<>> ELSE r.results)
                        EXCEPT !.args = <<skipEnvScan, skipDiskScan, persist>>,
                               !.writes = IF unreadable THEN 0 ELSE r.writes,
                               !.threw = threw]
         /\ UNCHANGED <<others, catalog, calls, doc, pending, mode, env, userConfig, diskFiles, now, stateCache>>

\* the answers that matter to a run reading credential auth: one refresh answer
\* when no refresh request is sent
RefreshChoices(auth, t) ==
  IF NeedsRefresh(auth, t) THEN RefreshResponses ELSE {RefreshFail("status")}

\* likewise one exchange answer when the loader sends no exchange request
ExchangeChoices(auth, t, rsp) ==
  LET token == resolveOAuthToken(auth, t, rsp).token
  IN IF auth.type = "oauth" /\ IsSome(token) /\ ~looksLikeApiKey(Val(token))
     THEN ExchangeResponses
     ELSE {ExchangeFail("status")}

\* getState() with an empty cache: buildProviderState over every catalog provider
BuildProviderState ==
  /\ StateMissing(stateCache)
  /\ catalog.task \in {"ok", "failed"}
  /\ catalog' = [catalog EXCEPT !.builtFrom = catalog.version, !.builds = @ + 1]
  /\ ~Unreadable(mode, doc)
  /\ LET auth == getAuth(mode, persisted, discovered, "anthropic",
                         StoreAll(mode, persisted, discovered)["anthropic"])
     IN \E rsp \in (IF auth.type = "oauth" THEN RefreshChoices(auth, now)
                      ELSE {RefreshFail("status")}) :
        \E ex \in ExchangeChoices(auth, now, rsp) :
          LET b == [p \in Providers |->
                      BuildOne(p, mode, persisted, discovered, env, userConfig[p], now, rsp, ex)]
          IN /\ stateCache' = Some([p \in Providers |-> b[p].state])
             /\ persisted' = [p \in Providers |-> b[p].data[p]]
             /\ last' = [Op("build", "-", now, persisted,
                             [p \in Providers |-> b[p].run], <<>>)
                            EXCEPT !.rsp = rsp, !.ex = ex]
  /\ UNCHANGED <<others, calls, doc, pending, mode, env, userConfig, diskFiles, discovered, now>>

\* buildProviderState when authStore.all() throws: the rejected promise is
\* what getState keeps and hands out
BuildProviderStateFails ==
  /\ StateMissing(stateCache)
  /\ catalog.task \in {"ok", "failed"}
  /\ Unreadable(mode, doc)
  /\ catalog' = [catalog EXCEPT !.builtFrom = catalog.version, !.builds = @ + 1]
  /\ stateCache' = Rejected
  /\ last' = [Op("build", "-", now, persisted, NoRuns, <<>>) EXCEPT !.threw = TRUE]
  /\ UNCHANGED <<others, calls, doc, pending, mode, env, userConfig, persisted, diskFiles,
                 discovered, now>>

\* a closure that keeps the credential it saw when the state was built
CapturedAuth(p) ==
  IF IsSome(Val(stateCache)[p].authCred) THEN Val(Val(stateCache)[p].authCred)
  ELSE DefaultAuth

\* the credential the getAuth closure of provider p returns when called now
CurrentAuth(p) ==
  getAuth(mode, persisted, discovered, p, Val(stateCache)[p].authCred)

\* the transform buildProviderState installs itself for an oauth credential of a
\* Google SDK: the token is the one it saw when the state was built
StaticFetch(st, hdrs) ==
  Run(DefaultAuth, st.fetchTok,
      <<Req("api", st.fetchTok, hdrs.keys \ {"x-goog-api-key"})>>, <<>>, NoOpts, FALSE)

\* the transform installed for a provider, applied to one outbound request
FetchRun(st, auth, t, rsp, hdrs, rewritten, project) ==
  CASE st.fetch = "anthropic" -> AnthropicFetch(auth, t, rsp, hdrs)
    [] st.fetch = "codex" -> CodexFetch(auth, t, rsp, hdrs)
    [] st.fetch = "google" -> GoogleFetch(auth, t, rsp, hdrs, rewritten, project)
    [] st.fetch = "copilot" -> CopilotFetch(auth, hdrs)
    [] OTHER -> StaticFetch(st, hdrs)

\* the headers the SDK of provider p puts on a request
SdkHeaders(p) ==
  CASE p = "anthropic" -> {h \in InHeaders : h.keys \subseteq {"x-api-key"} /\ h.auth = None}
    [] p = "google" -> {h \in InHeaders : h.keys \subseteq {"x-goog-api-key"} /\ h.auth = None}
    [] p = "openai" -> {h \in InHeaders : h.keys = {}}
    [] OTHER -> {h \in InHeaders : h.keys = {"x-api-key"}}

\* an outbound request of the SDK client of provider p
Fetch ==
  /\ stateCache # None
  /\ \E p \in Providers :
       LET st == Val(stateCache)[p]
           auth == CurrentAuth(p)
       IN /\ st.fetch # "none"
          /\ \E rsp \in (IF st.fetch \in {"anthropic", "codex", "google"}
                          THEN RefreshChoices(auth, now) ELSE {RefreshFail("status")}),
                hdrs \in SdkHeaders(p),
                rewritten \in (IF st.fetch = "google" THEN BOOLEAN ELSE {FALSE}),
                project \in (IF st.fetch = "google" THEN BOOLEAN ELSE {TRUE}) :
               LET run == FetchRun(st, auth, now, rsp, hdrs, rewritten, project)
               IN /\ persisted' = ApplySets(mode, persisted, p, run.sets)
                  /\ last' = [Op("fetch", p, now, persisted,
                                  [NoRuns EXCEPT ![p] = run], <<>>)
                                 EXCEPT !.rsp = rsp]
  /\ UNCHANGED <<others, catalog, calls, doc, pending, mode, env, userConfig, diskFiles, discovered, now, stateCache>>

\* time passes
Tick ==
  /\ now < StartMs + MaxTicks * SecondMs
  /\ now' = now + SecondMs
  /\ last' = Op("tick", "-", now', persisted, NoRuns, <<>>)
  /\ UNCHANGED <<others, catalog, calls, doc, pending, mode, env, userConfig, diskFiles, persisted, discovered, stateCache>>

Next ==
  \/ Discover
  \/ BuildProviderState
  \/ Fetch
  \/ Tick

Spec == Init /\ [][Next]_vars

\* State resolution: every combination of declared variables, stored
\* credential, files on disk and caller configuration, for every catalog provider
StateCreds ==
  { Cred("api", Some(TokApiDirect), None, None, None),
    Cred("oauth", Some(TokOatOld), None, None, None),
    Cred("oauth", Some(TokOatOld), Some(TokOrt1), Some(PastMs), None),
    Cred("oauth", None, Some(TokOrt1), Some(PastMs), None) }

InitState ==
  \E f \in Providers :
    /\ InitWith(f, {"external"}, {None, Some(EmptyStr), Some(TokEnv), Some(TokEnv2)},
                StateCreds, ConfigChoices, {d \in DiskChoices(f) : Len(d) < 2})
    /\ Quiet

\* providerStore.listProviders() on a store whose state has been built
ListProviders ==
  /\ stateCache # None
  /\ \E installed \in InstalledChoices :
       last' = [Op("list", "-", now, persisted, NoRuns,
                   <<listProviders(Val(stateCache), installed)>>)
                  EXCEPT !.args = <<installed>>]
  /\ UNCHANGED <<others, catalog, calls, doc, pending, mode, env, userConfig, persisted,
                 discovered, diskFiles, now, stateCache>>

NextState ==
  \/ Discover
  \/ BuildProviderState
  \/ ListProviders

SpecState == InitState /\ [][NextState]_vars

\* The secret resolver: the keys of its storage and the references it is given
StorageKeys == {"k1", "k2"}

SecretRefs ==
  { SecretRef("string", TokCfg, "-"), SecretRef("plain", TokCfg, "-"),
    SecretRef("plain", EmptyStr, "-"),
    SecretRef("env", EmptyStr, UserEnvVar), SecretRef("env", EmptyStr, "OPENAI_API_KEY"),
    SecretRef("storage", EmptyStr, "k1"), SecretRef("storage", EmptyStr, "k2"),
    SecretRef("vault", EmptyStr, "k1") }

\* a resolver without storage, or over a storage holding any of the keys
InitSecret ==
  /\ InitWith("openai", {"storage"}, {None, Some(EmptyStr), Some(TokEnv)}, {},
              {<<None, None>>,
               <<Some([apiKey |-> Some(SecretRef("env", EmptyStr, UserEnvVar)),
                       baseURL |-> FALSE]), Some(TokCfg)>>},
              {<<>>})
  /\ flow = NoFlow
  /\ rotation = NoRotation
  /\ catalog = CatalogReady
  /\ calls = NoCalls
  /\ doc = "json"
  /\ pending = NoPending
  /\ kv \in {None} \cup {Some(f) : f \in [StorageKeys -> {None, Some(TokDisk), Some(EmptyStr)}]}

\* secretResolver.resolve(ref)
ResolveSecret ==
  \E ref \in SecretRefs :
    LET r == resolve(ref, env, kv)
    IN /\ last' = [Op("resolve", "-", now, persisted, NoRuns, r.value)
                      EXCEPT !.args = <<ref>>, !.threw = r.threw]
       /\ UNCHANGED <<others, catalog, calls, doc, pending, mode, env, userConfig, persisted, discovered, diskFiles, now,
                      stateCache>>

NextSecret == ResolveSecret

SpecSecret == InitSecret /\ [][NextSecret]_vars

\* Device authorization: the methods of the codex and copilot handlers
StartDeviceFlow ==
  /\ flow.status = "idle"
  /\ \E h \in {"codex", "copilot"} : flow' = Flow(h, 0, "polling")
  /\ UNCHANGED <<kv, rotation, catalog, calls, doc, pending, mode, env, userConfig, persisted, discovered, diskFiles, now, stateCache, last>>

\* the next pass of the polling loop of the handler
Poll ==
  /\ flow.status = "polling"
  /\ flow.polls < MaxPending
  /\ \/ /\ flow.handler = "codex"
        /\ \E answer \in CodexPollAnswers : flow' = pollDeviceAuthorizationCode(flow, answer)
     \/ /\ flow.handler = "copilot"
        /\ \E answer \in CopilotPollAnswers : flow' = pollForToken(flow, answer)
  /\ UNCHANGED <<kv, rotation, catalog, calls, doc, pending, mode, env, userConfig, persisted, discovered, diskFiles, now, stateCache, last>>

\* the authorization-code method of the anthropic or google handler, with the
\* state generated for the request and the text the user pastes
Authorize ==
  \E p \in {"anthropic", "google"}, callbackInput \in CallbackInputs,
     state \in {Chars("s", "t", "1"), Chars("s", "t", "2")} :
    LET r == authorize(callbackInput, state)
    IN /\ last' = [Op("authorize", p, now, persisted, NoRuns, r.exchange)
                      EXCEPT !.args = <<callbackInput, state>>, !.threw = r.threw]
       /\ UNCHANGED <<others, catalog, calls, doc, pending, mode, env, userConfig, persisted,
                      discovered, diskFiles, now, stateCache>>

InitDevice ==
  /\ InitWith("openai", {"storage"}, {None}, {}, {<<None, None>>}, {<<>>})
  /\ Quiet

NextDevice ==
  \/ StartDeviceFlow
  \/ Poll

SpecDevice == InitDevice /\ [][NextDevice]_vars

\* The authorization-code flow: callbacks pasted at different times
NextAuthorize ==
  \/ Authorize
  \/ Tick

SpecAuthorize == InitDevice /\ [][NextAuthorize]_vars

\* The credential store: set, remove and discover over two providers
StoreProviders == {"anthropic", "openai"}

\* credentials a caller hands to set, or a map holds from the start: a key, an
\* empty key, a kind the store does not know, no key at all
SetCreds ==
  { Cred("api", Some(TokApiDirect), None, None, None),
    Cred("api", Some(EmptyStr), None, None, None),
    Cred("bogus", Some(TokCfg), None, None, None),
    Cred("oauth", None, Some(TokOrt1), Some(PastMs), None) }

\* what the caller's scanners report: nothing; a scanner that throws between
\* two that work; one scanner reporting an empty key first
StoreDiskChoices ==
  { <<>>,
    <<Scan(FALSE, <<DiskScanResult("openai", <<"disk", "a">>, Some(TokOatOld), Some("oauth"),
                                   Some(TokOrt1), Some(PastMs))>>),
      Scan(TRUE, <<DiskScanResult("mistral", <<"disk", "m">>, Some(TokDisk), None, None, None)>>),
      Scan(FALSE, <<DiskScanResult("anthropic", <<"disk", "b">>, None, None, None, None),
                    DiskScanResult("anthropic", <<"disk", "c">>, Some(TokDisk), None, None, None)>>)>>,
    <<Scan(FALSE, <<DiskScanResult("openai", <<"disk", "e">>, Some(EmptyStr), Some("oauth"),
                                   None, None),
                    DiskScanResult("openai", <<"disk", "a">>, Some(TokOatOld), Some("oauth"),
                                   Some(TokOrt1), Some(PastMs))>>)>> }

\* the store of one application: OPENAI_API_KEY unset, empty or set, and any of
\* the credentials under openai in the map
InitStore ==
  /\ InitWith("openai", {"external", "storage"}, {None, Some(EmptyStr), Some(TokEnv)},
              SetCreds, {<<None, None>>}, StoreDiskChoices)
  /\ Quiet

\* authStore.set(providerId, credential)
Set ==
  \E p \in StoreProviders, c \in SetCreds :
    /\ persisted' = StoreSet(mode, persisted, p, c)
    /\ last' = [Op("set", p, now, persisted, NoRuns, <<>>)
                   EXCEPT !.args = <<c>>, !.writes = 1]
    /\ UNCHANGED <<others, catalog, calls, doc, pending, mode, env, userConfig, diskFiles, discovered, now, stateCache>>

\* authStore.remove(providerId)
Remove ==
  \E p \in StoreProviders :
    LET r == StoreRemove(mode, persisted, p)
    IN /\ persisted' = r.data
       /\ last' = [Op("remove", p, now, persisted, NoRuns, <<>>)
                      EXCEPT !.writes = r.writes]
       /\ UNCHANGED <<others, catalog, calls, doc, pending, mode, env, userConfig, diskFiles, discovered, now, stateCache>>

NextStore ==
  \/ Set
  \/ Remove
  \/ Discover

SpecStore == InitStore /\ [][NextStore]_vars

\* The provider store from its creation: calls that wait for the catalog,
\* the refresh task, extend()

\* getLanguageModel, listProviders, listModels or getModel up to the await of
\* ensureCatalogEnriched
BeginCall ==
  \E i \in CallIds :
    /\ calls[i] = "idle"
    /\ calls' = [calls EXCEPT ![i] = "waiting"]
    /\ catalog' = ensureCatalogEnriched(catalog)
    /\ last' = [Op("call", "-", now, persisted, NoRuns, <<>>) EXCEPT !.args = <<i>>]
    /\ UNCHANGED <<others, doc, pending, mode, env, userConfig, persisted, discovered, diskFiles, now,
                   stateCache>>

\* the refresh task settles: catalog.refresh() succeeded, and the state is
\* invalidated, or it failed, and nothing changes
CatalogRefresh ==
  /\ catalog.task = "running"
  /\ \E success \in BOOLEAN :
       IF success
         THEN /\ catalog' = [catalog EXCEPT !.task = "ok", !.version = @ + 1]
              /\ stateCache' = None
         ELSE /\ catalog' = [catalog EXCEPT !.task = "failed"]
              /\ stateCache' = stateCache
  /\ last' = Op("refresh", "-", now, persisted, NoRuns, <<>>)
  /\ UNCHANGED <<others, calls, doc, pending, mode, env, userConfig, persisted, discovered, diskFiles, now>>

\* the rest of a call once the task has settled: getState() hands out the
\* cached state (a miss goes through BuildProviderState first)
Answer ==
  \E i \in CallIds :
    /\ calls[i] = "waiting"
    /\ catalog.task \in {"ok", "failed"}
    /\ stateCache # None
    /\ calls' = [calls EXCEPT ![i] = "idle"]
    /\ last' = [Op("answer", "-", now, persisted, NoRuns, <<catalog.builtFrom>>)
                   EXCEPT !.args = <<i>>]
    /\ UNCHANGED <<others, catalog, doc, pending, mode, env, userConfig, persisted, discovered, diskFiles,
                   now, stateCache>>

\* an extend() that leaves the cached state in place
ExtendKeepingState ==
  /\ catalog.version < MaxExtends
  /\ catalog' = [catalog EXCEPT !.version = @ + 1]
  /\ last' = Op("extend", "-", now, persisted, NoRuns, <<>>)
  /\ UNCHANGED <<others, calls, doc, pending, mode, env, userConfig, persisted, discovered, diskFiles, now,
                 stateCache>>

\* providerStore.extend(config)
Extend ==
  /\ catalog.version < MaxExtends
  /\ catalog' = [catalog EXCEPT !.version = @ + 1]
  /\ stateCache' = None
  /\ last' = Op("extend", "-", now, persisted, NoRuns, <<>>)
  /\ UNCHANGED <<others, calls, doc, pending, mode, env, userConfig, persisted, discovered, diskFiles, now>>

InitCatalog ==
  /\ InitWith("openai", {"external", "storage"}, {None, Some(TokEnv)},
              {Cred("api", Some(TokApiDirect), None, None, None)}, {<<None, None>>}, {<<>>})
  /\ flow = NoFlow
  /\ rotation = NoRotation
  /\ kv = None
  /\ catalog = CatalogNew
  /\ calls = NoCalls
  /\ doc = "json"
  /\ pending = NoPending

NextCatalog ==
  \/ BeginCall
  \/ CatalogRefresh
  \/ BuildProviderState
  \/ Answer
  \/ Extend

SpecCatalog == InitCatalog /\ [][NextCatalog]_vars

\* The store under concurrent callers and with a stored document that may not
\* parse: set and remove are a read of the map, an await, and a write of the
\* copy; FileStorage.set rewrites the file in place

\* the credential a caller sets
WrittenCred == Cred("api", Some(TokCfg), None, None, None)

\* authStore.set(p, c) up to the await of writeAuthState
BeginSet ==
  \E i \in WriterIds, p \in StoreProviders :
    /\ pending[i] = None
    /\ IF Unreadable(mode, doc)
         THEN /\ pending' = pending
              /\ last' = [Op("set", p, now, persisted, NoRuns, <<>>)
                             EXCEPT !.args = <<WrittenCred>>, !.threw = TRUE]
         ELSE /\ pending' = [pending EXCEPT ![i] =
                               Some(PendingWrite("set", p,
                                      [readAuthState(mode, persisted) EXCEPT ![p] = Some(WrittenCred)],
                                      FALSE))]
              /\ last' = [Op("read", p, now, persisted, NoRuns, <<>>) EXCEPT !.args = <<i>>]
    /\ UNCHANGED <<others, catalog, calls, doc, mode, env, userConfig, persisted, discovered,
                   diskFiles, now, stateCache>>

\* authStore.remove(p) up to the await of writeAuthState; a provider absent from
\* the map read returns at once
BeginRemove ==
  \E i \in WriterIds, p \in StoreProviders :
    /\ pending[i] = None
    /\ IF Unreadable(mode, doc)
         THEN /\ pending' = pending
              /\ last' = [Op("remove", p, now, persisted, NoRuns, <<>>) EXCEPT !.threw = TRUE]
         ELSE LET store == readAuthState(mode, persisted)
              IN IF ~IsSome(store[p])
                   THEN /\ pending' = pending
                        /\ last' = Op("remove", p, now, persisted, NoRuns, <<>>)
                   ELSE /\ pending' = [pending EXCEPT ![i] =
                                         Some(PendingWrite("remove", p,
                                                          [store EXCEPT ![p] = None], FALSE))]
                        /\ last' = [Op("read", p, now, persisted, NoRuns, <<>>)
                                       EXCEPT !.args = <<i>>]
    /\ UNCHANGED <<others, catalog, calls, doc, mode, env, userConfig, persisted, discovered,
                   diskFiles, now, stateCache>>

\* storage.set of a storage-backed store begins: fs.writeFile has opened the
\* file, and until it is done the file holds a part of the new text
WriteStart ==
  \E i \in WriterIds :
    /\ pending[i] # None
    /\ mode = "storage"
    /\ doc = "json"
    /\ ~Val(pending[i]).writing
    /\ doc' = "torn"
    /\ pending' = [pending EXCEPT ![i] = Some([Val(pending[i]) EXCEPT !.writing = TRUE])]
    /\ last' = [Op("write", Val(pending[i]).p, now, persisted, NoRuns, <<>>)
                   EXCEPT !.args = <<i>>]
    /\ UNCHANGED <<others, catalog, calls, mode, env, userConfig, persisted, discovered,
                   diskFiles, now, stateCache>>

\* writeAuthState is done and the call returns: the copy has replaced the
\* caller's map, or the file holds the whole new text
WriteEnd ==
  \E i \in WriterIds :
    /\ pending[i] # None
    /\ mode = "storage" => Val(pending[i]).writing
    /\ persisted' = writeAuthState(mode, Val(pending[i]).store)
    /\ doc' = "json"
    /\ pending' = [pending EXCEPT ![i] = None]
    /\ last' = [Op(Val(pending[i]).op, Val(pending[i]).p, now, persisted, NoRuns, <<>>)
                   EXCEPT !.args = <<i>>, !.writes = 1]
    /\ UNCHANGED <<others, catalog, calls, mode, env, userConfig, discovered, diskFiles, now,
                   stateCache>>

\* authStore.all(), and get(p), which is all()[p]
All ==
  /\ last' = IF Unreadable(mode, doc)
               THEN [Op("all", "-", now, persisted, NoRuns, <<>>) EXCEPT !.threw = TRUE]
               ELSE Op("all", "-", now, persisted, NoRuns,
                       <<StoreAll(mode, persisted, discovered)>>)
  /\ UNCHANGED <<others, catalog, calls, doc, pending, mode, env, userConfig, persisted,
                 discovered, diskFiles, now, stateCache>>

\* one store shared by two callers, with a credential under openai or none
InitShared ==
  /\ InitWith("openai", {"external", "storage"}, {None},
              {Cred("api", Some(TokApiDirect), None, None, None)}, {<<None, None>>}, {<<>>})
  /\ Quiet

NextShared ==
  \/ BeginSet
  \/ BeginRemove
  \/ WriteStart
  \/ WriteEnd
  \/ All

SpecShared == InitShared /\ [][NextShared]_vars

\* Discovery and state resolution over a stored document that parses or does
\* not: OPENAI_API_KEY set or not, a scanner that throws among the scanners
InitFault ==
  /\ InitWith("openai", {"external", "storage"}, {None, Some(TokEnv)},
              {Cred("api", Some(TokApiDirect), None, None, None)}, {<<None, None>>},
              StoreDiskChoices)
  /\ flow = NoFlow
  /\ rotation = NoRotation
  /\ kv = None
  /\ catalog = CatalogReady
  /\ calls = NoCalls
  /\ doc \in (IF mode = "storage" THEN {"json", "garbled"} ELSE {"json"})
  /\ pending = NoPending

NextFault ==
  \/ Discover
  \/ BuildProviderState
  \/ BuildProviderStateFails

SpecFault == InitFault /\ [][NextFault]_vars

\* Two requests through a fetch transform for one provider whose stored OAuth
\* credential has expired, against a token endpoint that rotates refresh tokens

\* the transform of a provider whose credential is of kind oauth, up to its
\* refresh request: const currentAuth = await getAuth()
GetAuth ==
  \E i \in CallIds, p \in StoreProviders :
    LET auth == getAuth(mode, persisted, discovered, p, None)
    IN /\ rotation.held[i] = None
       /\ auth.type = "oauth"
       /\ rotation' = [rotation EXCEPT !.held[i] = Some([p |-> p, auth |-> auth])]
       /\ last' = [Op("getAuth", p, now, persisted, NoRuns, <<>>) EXCEPT !.args = <<i>>]
       /\ UNCHANGED <<flow, kv, catalog, calls, doc, pending, mode, env, userConfig,
                      persisted, discovered, diskFiles, now, stateCache>>

\* the rest of the transform: the endpoint answers the refresh request, if one
\* was sent, a refreshed credential is stored, and the request goes out
FetchWith ==
  \E i \in CallIds :
    /\ rotation.held[i] # None
    /\ LET auth == Val(rotation.held[i]).auth
           p == Val(rotation.held[i]).p
       IN \E rsp \in (IF NeedsRefresh(auth, now) THEN EndpointAnswers(rotation.accepts, auth)
                        ELSE {RefreshFail("status")}),
             hdrs \in SdkHeaders(p) :
            LET run == IF p = "anthropic" THEN AnthropicFetch(auth, now, rsp, hdrs)
                       ELSE CodexFetch(auth, now, rsp, hdrs)
            IN /\ persisted' = ApplySets(mode, persisted, p, run.sets)
               /\ rotation' = [rotation EXCEPT
                                 !.held[i] = None,
                                 !.accepts = IF rsp.kind = "ok" THEN Rotated(@) ELSE @]
               /\ last' = [Op("fetch", p, now, persisted, [NoRuns EXCEPT ![p] = run], <<>>)
                              EXCEPT !.rsp = rsp, !.args = <<i>>]
    /\ UNCHANGED <<flow, kv, catalog, calls, doc, pending, mode, env, userConfig, discovered,
                   diskFiles, now, stateCache>>

\* anthropic (bearer fallback) or openai (codex) holding an OAuth credential
\* that has expired, or expires in a second
InitRace ==
  \E f \in {"anthropic", "openai"} :
    /\ InitWith(f, {"external", "storage"}, {None},
                {Cred("oauth", Some(TokOatOld), Some(TokOrt1), Some(PastMs), None),
                 Cred("oauth", Some(TokOatOld), Some(TokOrt1), Some(SoonMs), None)},
                {<<None, None>>}, {<<>>})
    /\ IsSome(persisted[f])
    /\ Quiet

NextRace ==
  \/ GetAuth
  \/ FetchWith
  \/ Remove
  \/ Tick

SpecRace == InitRace /\ [][NextRace]_vars

----------------------------------------------------------------------------
(* Properties of the token lifecycle, read off the last operation *)

\* the positions in a run's traffic of the requests to one endpoint
Sent(run, ep) == {i \in 1..Len(run.net) : run.net[i].ep = ep}

\* the refresh endpoint answered with a new secret, refresh token and lifetime
RefreshSucceeded ==
  /\ last.rsp.kind = "ok"
  /\ IsSome(last.rsp.access_token)
  /\ IsSome(last.rsp.refresh_token)
  /\ IsSome(last.rsp.expires_in)

\* run read an expired oauth credential with a refresh token and asked for a refresh
RefreshedIn(run) ==
  /\ run.ran
  /\ run.auth.type = "oauth"
  /\ IsSome(run.auth.expires) /\ Val(run.auth.expires) < last.at
  /\ IsSome(run.auth.refresh)
  /\ Sent(run, "refresh") # {}

\* C1: for every handler with a refresh, once a run (the loader, or a request
\* through the transform) has read an expired oauth credential with a refresh
\* token and the refresh succeeded, get(p) returns the new secret, the new
\* refresh token and the expiry now + expires_in * 1000.
C1_RefreshedCredentialStored ==
  \A p \in Registered :
    (RefreshedIn(last.runs[p]) /\ RefreshSucceeded) =>
      LET got == StoreGet(mode, persisted, discovered, p)
      IN /\ IsSome(got)
         /\ Val(got).key = last.rsp.access_token
         /\ Val(got).refresh = last.rsp.refresh_token
         /\ Val(got).expires = Some(last.at + Val(last.rsp.expires_in) * 1000)

\* C2, as stated: a resolution of the anthropic handler that reads an expired
\* credential with a refresh token sends exactly one refresh request, before any
\* key-exchange request, and hands the store exactly one credential, carrying
\* the new secret and refresh token.
C2_OneRefreshOneSet ==
  LET run == last.runs["anthropic"]
  IN (/\ run.ran /\ run.auth.type = "oauth"
      /\ IsSome(run.auth.expires) /\ Val(run.auth.expires) < last.at
      /\ IsSome(run.auth.refresh)) =>
       /\ Cardinality(Sent(run, "refresh")) = 1
       /\ \A i \in Sent(run, "refresh"), j \in Sent(run, "exchange") : i < j
       /\ Len(run.sets) = 1
       /\ run.sets[1].key = Some(OrEmpty(last.rsp.access_token))
       /\ run.sets[1].refresh = IF IsSome(last.rsp.refresh_token)
                                THEN last.rsp.refresh_token
                                ELSE run.auth.refresh

\* C2, amended: such a resolution sends exactly one refresh request, before any
\* key-exchange request; when the refresh succeeds the store receives exactly
\* one credential, with the answer's secret and the answer's refresh token (the
\* previous refresh token when the answer has none); when the refresh fails the
\* store receives none.
C2_OneRefreshSetOnSuccess ==
  LET run == last.runs["anthropic"]
  IN (/\ run.ran /\ run.auth.type = "oauth"
      /\ IsSome(run.auth.expires) /\ Val(run.auth.expires) < last.at
      /\ IsSome(run.auth.refresh)) =>
       /\ Cardinality(Sent(run, "refresh")) = 1
       /\ \A i \in Sent(run, "refresh"), j \in Sent(run, "exchange") : i < j
       /\ IF last.rsp.kind = "ok"
          THEN /\ Len(run.sets) = 1
               /\ run.sets[1].key = Some(OrEmpty(last.rsp.access_token))
               /\ run.sets[1].refresh = IF IsSome(last.rsp.refresh_token)
                                        THEN last.rsp.refresh_token
                                        ELSE run.auth.refresh
          ELSE run.sets = <<>>

\* a loader run that refreshed with success and then asked for a key exchange
C2_Witness ==
  /\ last.op = "build"
  /\ RefreshedIn(last.runs["anthropic"])
  /\ RefreshSucceeded
  /\ Sent(last.runs["anthropic"], "exchange") # {}

\* C3: a run of a handler that reads an oauth credential whose expiry is in the
\* future sends no refresh request and hands nothing to the store, at load and
\* on every later request through the transform.
C3_FreshNeverRefreshed ==
  \A p \in Registered :
    LET run == last.runs[p]
    IN (/\ run.ran /\ run.auth.type = "oauth"
        /\ IsSome(run.auth.expires) /\ Val(run.auth.expires) > last.at) =>
         /\ Sent(run, "refresh") = {}
         /\ run.sets = <<>>
         /\ persisted[p] = last.before[p]

\* a request through the bearer fallback with a credential not yet expired
C3_Witness ==
  /\ last.op = "fetch"
  /\ last.p = "anthropic"
  /\ IsSome(last.runs["anthropic"].auth.refresh)
  /\ IsSome(last.runs["anthropic"].auth.expires)
  /\ Val(last.runs["anthropic"].auth.expires) > last.at

----------------------------------------------------------------------------
(* Properties of state resolution *)

\* the configured secret of provider p, when its reference resolves
ConfiguredSecret(p) ==
  IF IsSome(userConfig[p]) /\ IsSome(Val(userConfig[p]).apiKey)
  THEN resolveSecretRef(Val(Val(userConfig[p]).apiKey), env)
  ELSE None

\* the value of the first declared variable of p that is set
DeclaredValue(p) ==
  LET names == CatalogEnv(p)
  IN IF \E i \in 1..Len(names) : IsSome(env[names[i]])
     THEN env[names[CHOOSE i \in 1..Len(names) :
                       /\ IsSome(env[names[i]])
                       /\ \A j \in 1..(i - 1) : ~IsSome(env[names[j]])]]
     ELSE None

\* C4, as stated: a provider with a declared variable set resolves to source env
\* and that variable's value, whatever the store and the disk hold.
C4_EnvAlwaysWins ==
  (last.op = "build") =>
    \A p \in Providers :
      IsSome(DeclaredValue(p)) =>
        /\ Val(stateCache)[p].source = "env"
        /\ Val(stateCache)[p].key = DeclaredValue(p)

\* C4, amended: a provider with a declared variable set resolves to source env
\* and the value of the first such variable when no stored or discovered
\* credential of the provider has a secret, its handler supplies no API key and
\* no configured secret resolves; a stored or discovered credential with a
\* secret takes precedence over the variable (source auth) when the handler
\* supplies no key and no configured secret resolves.
C4_EnvWinsWhenAlone ==
  (last.op = "build") =>
    \A p \in Providers :
      LET stored == StoreAll(mode, last.before, discovered)[p]
          st == Val(stateCache)[p]
      IN (/\ IsSome(DeclaredValue(p))
          /\ ~IsSome(last.runs[p].opts.apiKey)
          /\ ~IsSome(ConfiguredSecret(p))) =>
           IF IsSome(stored) /\ IsSome(Val(stored).key)
           THEN st.source = "auth" /\ st.key = Val(stored).key
           ELSE st.source = "env" /\ st.key = DeclaredValue(p)

\* a provider resolved from its variable next to a stored credential that has
\* no secret
C4_Witness ==
  /\ last.op = "build"
  /\ \E p \in Providers :
       /\ IsSome(DeclaredValue(p))
       /\ IsSome(last.before[p])
       /\ Val(stateCache)[p].source = "env"

\* C5: explicit configuration is applied last: when the configured secret
\* reference of a provider resolves, the state has source config and that value.
C5_ConfigHighest ==
  (stateCache # None) =>
    \A p \in Providers :
      IsSome(ConfiguredSecret(p)) =>
        /\ Val(stateCache)[p].source = "config"
        /\ Val(stateCache)[p].key = ConfiguredSecret(p)

\* a configured provider that also has a variable set and a stored secret
C5_Witness ==
  /\ last.op = "build"
  /\ \E p \in Providers :
       /\ IsSome(ConfiguredSecret(p))
       /\ IsSome(DeclaredValue(p))
       /\ IsSome(last.before[p]) /\ IsSome(Val(last.before[p]).key)
       /\ Val(stateCache)[p].source = "config"

\* C6: with no variable set, an empty store, nothing discovered and no
\* configuration, every catalog provider resolves to source none and no secret.
C6_NothingMeansNone ==
  (/\ last.op = "build"
   /\ \A v \in EnvVars : env[v] = None
   /\ \A p \in Providers : /\ last.before[p] = None
                           /\ discovered[p] = <<>>
                           /\ userConfig[p] = None) =>
    \A p \in Providers :
      /\ Val(stateCache)[p].source = "none"
      /\ Val(stateCache)[p].key = None

----------------------------------------------------------------------------
(* Properties of the key exchange and of the bearer fallback *)

\* the textual shape of a direct API key
DirectKeyShape(tok) ==
  /\ StartsWith(tok, SkAnt)
  /\ ~StartsWith(tok, PfxOat)
  /\ ~StartsWith(tok, PfxOrt)

\* C7: a (possibly refreshed) secret with the shape of a direct API key is
\* returned as the API key and no key-exchange request is sent for it; no
\* key-exchange request ever carries a secret of that shape.
C7_DirectKeyNotExchanged ==
  (last.op = "build") =>
    LET run == last.runs["anthropic"]
    IN /\ \A i \in Sent(run, "exchange") : ~DirectKeyShape(Val(run.net[i].tok))
       /\ (IsSome(run.token) /\ DirectKeyShape(Val(run.token))) =>
            /\ Sent(run, "exchange") = {}
            /\ run.opts = Opts(run.token, FALSE, "none", FALSE)
            /\ Val(stateCache)["anthropic"].fetch = "none"

\* a loader run whose secret has the direct shape, once stored and once refreshed
C7_Witness ==
  /\ last.op = "build"
  /\ last.runs["anthropic"].auth.type = "oauth"
  /\ last.runs["anthropic"].token = Some(TokApiDirect)
  /\ last.runs["anthropic"].auth.key # Some(TokApiDirect)

\* C8: every request through the bearer fallback reads the credential the store
\* holds at that moment, refreshes it if and only if it is expired and has a
\* refresh token, and leaves with no x-api-key header and a bearer token that
\* is the refreshed secret, else the stored one.
C8_FallbackResolvesPerRequest ==
  (last.op = "fetch" /\ last.p = "anthropic") =>
    LET run == last.runs["anthropic"]
        cur == getAuth(mode, last.before, discovered, "anthropic",
                       Val(stateCache)["anthropic"].authCred)
        expired == /\ IsSome(cur.expires) /\ Val(cur.expires) < last.at
                   /\ IsSome(cur.refresh)
        bearer == IF expired /\ last.rsp.kind = "ok"
                  THEN OrEmpty(last.rsp.access_token)
                  ELSE OrEmpty(cur.key)
    IN /\ run.auth = cur
       /\ Cardinality(Sent(run, "refresh")) = (IF expired THEN 1 ELSE 0)
       /\ Sent(run, "api") = {Len(run.net)}
       /\ "x-api-key" \notin run.net[Len(run.net)].keys
       /\ run.net[Len(run.net)].tok = Some(bearer)

\* a request that finds another credential than the one seen at build time,
\* refreshes it and leaves with the refreshed secret
C8_Witness ==
  /\ last.op = "fetch"
  /\ last.p = "anthropic"
  /\ Some(last.runs["anthropic"].auth) # Val(stateCache)["anthropic"].authCred
  /\ Sent(last.runs["anthropic"], "refresh") # {}
  /\ last.rsp.kind = "ok"
  /\ last.runs["anthropic"].net[Len(last.runs["anthropic"].net)].tok = Some(TokOatNew)

\* C9: a key exchange that fails (non-success status, network error, a success
\* answer with an empty or missing key) does not fail the resolution: the
\* loader returns the bearer fallback, its header and its transform.
C9_ExchangeFailureFallsBack ==
  (last.op = "build") =>
    LET run == last.runs["anthropic"]
    IN (/\ Sent(run, "exchange") # {}
        /\ \/ last.ex.kind # "ok"
           \/ last.ex.raw_key = None
           \/ last.ex.raw_key = Some(EmptyStr)) =>
         /\ ~run.threw
         /\ run.opts = [apiKey |-> None, beta |-> TRUE, fetch |-> "anthropic",
                        baseURL |-> FALSE]
         /\ Val(stateCache)["anthropic"].fetch = "anthropic"
         /\ Val(stateCache)["anthropic"].beta

\* a loader run whose exchange got a success answer with an empty key
C9_Witness ==
  /\ last.op = "build"
  /\ Sent(last.runs["anthropic"], "exchange") # {}
  /\ last.ex.kind = "ok"
  /\ last.ex.raw_key = Some(EmptyStr)

\* C10: when the refresh fails, the resolution does not fail: it goes on with
\* the stale secret, hands nothing to the store, and the stored credentials are
\* what they were.
C10_RefreshFailureKeepsStale ==
  LET run == last.runs["anthropic"]
  IN (RefreshedIn(run) /\ last.rsp.kind # "ok") =>
       /\ ~run.threw
       /\ run.sets = <<>>
       /\ persisted = last.before
       /\ run.token = (IF IsSome(run.auth.key) /\ Len(Val(run.auth.key)) > 0
                       THEN run.auth.key ELSE None)
       /\ \A i \in Sent(run, "exchange") : run.net[i].tok = run.auth.key
       /\ \A i \in Sent(run, "api") : run.net[i].tok = Some(OrEmpty(run.auth.key))

\* a loader run whose refresh failed and which went on to the key exchange
C10_Witness ==
  /\ last.op = "build"
  /\ RefreshedIn(last.runs["anthropic"])
  /\ last.rsp.kind = "neterr"
  /\ Sent(last.runs["anthropic"], "exchange") # {}

\* C11: for every registered handler, a loader run that reads an api-key or
\* well-known credential returns the empty override (no secret, no headers, no
\* base URL, no transform) and sends nothing over the network.
C11_NonOAuthEmptyOverride ==
  \A p \in Registered :
    LET run == last.runs[p]
    IN (last.op = "build" /\ run.ran /\ run.auth.type \in {"api", "wellknown"}) =>
         /\ run.opts = NoOpts
         /\ run.net = <<>>

\* the requests of a run that carry a secret of the credential the run read
SentWithCredential(run) ==
  {i \in Sent(run, "api") :
     /\ IsSome(run.net[i].tok)
     /\ run.net[i].tok \in {run.auth.key, run.auth.refresh}}

\* C12: a run (a loader, or a request through an installed transform) that
\* reads an oauth credential whose expiry is in the past and which has a
\* refresh token sends no request with a secret of that credential unless it
\* sent a refresh request before.
C12_ExpiredNeverSentUnrefreshed ==
  \A p \in Providers :
    LET run == last.runs[p]
    IN (/\ run.ran /\ run.auth.type = "oauth"
        /\ IsSome(run.auth.expires) /\ Val(run.auth.expires) < last.at
        /\ IsSome(run.auth.refresh)) =>
         \A i \in SentWithCredential(run) : \E j \in Sent(run, "refresh") : j < i

----------------------------------------------------------------------------
(* Properties of the credential store *)

\* a credential of a kind the store knows
RecognizedKind(c) == c.type \in {"api", "oauth", "wellknown"}

\* a credential with a secret that is not the empty string
NonEmptySecret(c) == IsSome(c.key) /\ Val(c.key) # EmptyStr

C14_SetNormalizes ==
  last.op = "set" =>
    LET c == last.args[1]
        held == readAuthState(mode, persisted)[last.p]
    IN /\ IsSome(held)
       /\ Val(held).type = (IF RecognizedKind(c) THEN c.type ELSE "api")
       /\ Val(held).key = (IF NonEmptySecret(c) THEN c.key ELSE None)
       /\ Val(held).refresh = c.refresh
       /\ Val(held).expires = c.expires

\* the map the store reads from the persisted data
Held(data) == readAuthState(mode, data)

\* C15: remove(p) for a provider the map does not hold changes nothing and
\* writes nothing; for a provider the map holds, it removes that entry, and
\* every other entry the store holds is what it was.
C15_RemoveFrame ==
  last.op = "remove" =>
    IF ~IsSome(Held(last.before)[last.p])
    THEN persisted = last.before /\ last.writes = 0
    ELSE /\ ~IsSome(Held(persisted)[last.p])
         /\ \A q \in Providers \ {last.p} : Held(persisted)[q] = Held(last.before)[q]

\* remove of a held provider while another provider is held too
C15_Witness ==
  /\ last.op = "remove"
  /\ IsSome(Held(last.before)[last.p])
  /\ \E q \in Providers \ {last.p} : IsSome(Held(persisted)[q])

\* C24: with a map supplied by the caller, that map holds after every set and
\* remove exactly the store's contents: after set(p, c) it has c under p, after
\* remove(p) it has nothing under p, and its other keys are what they were.
C24_CallerMapHoldsContents ==
  (mode = "external" /\ last.op \in {"set", "remove"}) =>
    persisted = [last.before EXCEPT
                   ![last.p] = IF last.op = "set" THEN Some(last.args[1]) ELSE None]

\* the caller's map after a set that replaced the value a key had, another key
\* being present
C24_Witness ==
  /\ mode = "external"
  /\ last.op = "set"
  /\ IsSome(last.before[last.p])
  /\ last.before[last.p] # Some(last.args[1])
  /\ persisted[last.p] = Some(last.args[1])
  /\ \E q \in Providers \ {last.p} : IsSome(persisted[q])

----------------------------------------------------------------------------
(* Properties of discovery *)

\* the providers a list returned by discover() names, each with its source
Tags(results) == {<<results[i].providerId, results[i].source>> : i \in 1..Len(results)}

\* the list a discover() call with the options of the last one returns when it
\* is made now, over the given scanners
DiscoverAgain(scans) ==
  discover(mode, persisted, discovered, env,
           last.args[1], last.args[2], last.args[3], scans).results

\* C16: a second discover() with the same options, made right after the first
\* with nothing changed in between, names the same providers, each with the
\* same source.
C16_DiscoverTwiceSame ==
  last.op = "discover" => Tags(DiscoverAgain(diskFiles)) = Tags(last.ret)

\* a persisting discover() that wrote a candidate into the map and listed
\* providers found on disk and providers of the map
C16_Witness ==
  /\ last.op = "discover"
  /\ last.args[3]
  /\ last.writes = 1
  /\ persisted # last.before
  /\ {"disk", "auth"} \subseteq {t[2] : t \in Tags(last.ret)}
  /\ Tags(DiscoverAgain(diskFiles)) = Tags(last.ret)

\* the scanners that throw, and the providers they would have reported
Throwing(scans) == {i \in 1..Len(scans) : scans[i].throws}

WouldReport(scans) ==
  UNION {{scans[i].found[j].providerId : j \in 1..Len(scans[i].found)} :
           i \in Throwing(scans)}

\* the scanners without those that throw, in their order
WithoutThrowing(scans) ==
  LET Works(sc) == ~sc.throws
  IN SelectSeq(scans, Works)

\* the entries of a list for the providers outside a set, in their order
Outside(results, ps) ==
  LET Keep(r) == r.providerId \notin ps
  IN SelectSeq(results, Keep)

\* C17: when a scanner throws, discover() still returns; the other scanners
\* run, in order; and for every provider the throwing scanner would not have
\* reported, the list is that of a discover() over the scanners without it.
C17_ThrowingScannerSkipped ==
  (last.op = "discover" /\ ~last.args[2] /\ Throwing(diskFiles) # {}) =>
    Outside(last.ret, WouldReport(diskFiles))
      = Outside(DiscoverAgain(WithoutThrowing(diskFiles)), WouldReport(diskFiles))

\* a disk scan in which a scanner threw and a scanner after it reported a
\* provider that the list tags with the disk
C17_Witness ==
  /\ last.op = "discover"
  /\ ~last.args[2]
  /\ \E i \in Throwing(diskFiles) : \E k \in (i + 1)..Len(diskFiles) :
       \E j \in 1..Len(diskFiles[k].found) :
         <<diskFiles[k].found[j].providerId, "disk">> \in Tags(last.ret)

\* the first candidate of a list among those at the given positions
FirstAt(creds, idx) == creds[CHOOSE i \in idx : \A j \in idx : i <= j]

\* the candidate the store is said to prefer: the first of the preferred kind
\* with a non-empty secret, else the first with any secret, else the first
BestCandidate(creds, prefer) ==
  LET kind == {i \in 1..Len(creds) : creds[i].type = prefer /\ NonEmptySecret(creds[i])}
      any == {i \in 1..Len(creds) : IsSome(creds[i].key)}
  IN IF kind # {} THEN FirstAt(creds, kind)
     ELSE IF any # {} THEN FirstAt(creds, any)
     ELSE creds[1]

\* C18: after a discover() that persists, for every provider: a credential
\* with a secret that the store held before is unchanged; otherwise, when a
\* candidate with a secret was discovered, the store holds the best candidate.
C18_PersistFillsOnlyMissing ==
  (last.op = "discover" /\ last.args[3]) =>
    \A p \in Providers :
      LET before == Held(last.before)[p]
          creds == discovered[p]
      IN IF IsSome(before) /\ NonEmptySecret(Val(before))
         THEN Held(persisted)[p] = before
         ELSE (\E i \in 1..Len(creds) : NonEmptySecret(creds[i])) =>
                Held(persisted)[p] = Some(BestCandidate(creds, "api"))

\* the sources that hold something for provider p when the last discover()
\* looked: a hinted variable with a value, a result of a scanner that did not
\* throw, an entry of the map
EnvHolds(p) ==
  /\ ~last.args[1]
  /\ \E i \in 1..Len(ENV_HINTS) :
       /\ ENV_HINTS[i][2] = p
       /\ IsSome(env[ENV_HINTS[i][1]]) /\ Val(env[ENV_HINTS[i][1]]) # EmptyStr

DiskReports(p) ==
  LET all == runDiskScanners(diskFiles)
  IN {i \in 1..Len(all) : all[i].providerId = p}

DiskHolds(p) == ~last.args[2] /\ DiskReports(p) # {}

StoreHolds(p) == IsSome(Held(persisted)[p])

FirstSource(p) ==
  IF EnvHolds(p) THEN "env" ELSE IF DiskHolds(p) THEN "disk" ELSE "auth"

\* C19: the list one discover() returns has at most one entry per provider;
\* it names exactly the providers some source holds something for, each with
\* the first such source in the order environment, disk, store; a disk entry
\* is that of the first scanner result for the provider.
C19_OneEntryFirstSource ==
  last.op = "discover" =>
    /\ \A i, j \in 1..Len(last.ret) :
         last.ret[i].providerId = last.ret[j].providerId => i = j
    /\ {last.ret[i].providerId : i \in 1..Len(last.ret)}
         = {p \in Providers : EnvHolds(p) \/ DiskHolds(p) \/ StoreHolds(p)}
    /\ \A i \in 1..Len(last.ret) :
         LET r == last.ret[i]
         IN /\ r.source = FirstSource(r.providerId)
            /\ r.source = "disk" =>
                 r.location = Some(FirstAt(runDiskScanners(diskFiles),
                                           DiskReports(r.providerId)).source)
            /\ r.source = "auth" => r.credential = Held(persisted)[r.providerId]

\* a provider with a variable set, a result on disk and an entry in the map,
\* listed once from the environment, beside a provider listed from the disk
C19_Witness ==
  /\ last.op = "discover"
  /\ \E p \in Providers :
       /\ EnvHolds(p) /\ DiskHolds(p) /\ StoreHolds(p)
       /\ <<p, "env">> \in Tags(last.ret)
  /\ \E q \in Providers : <<q, "disk">> \in Tags(last.ret)

\* C20: getPreferred(p, kind) returns, when discovery holds candidates for p,
\* the first candidate of that kind with a non-empty secret, else the first
\* candidate with any secret, else the first candidate; only when discovery
\* holds no candidate for p does it return the stored credential, or nothing.
C20_PreferredCandidate ==
  \A p \in Providers, prefer \in {"api", "oauth"} :
    getPreferred(mode, persisted, discovered, p, prefer)
      = IF discovered[p] # <<>> THEN Some(BestCandidate(discovered[p], prefer))
        ELSE Held(persisted)[p]

----------------------------------------------------------------------------
(* Properties of one resolution call *)

\* the three ways a resolution of the anthropic handler ends
DirectKey(run) ==
  /\ IsSome(run.opts.apiKey) /\ run.opts.fetch = "none"
  /\ Sent(run, "exchange") = {}

DerivedKey(run) ==
  /\ IsSome(run.opts.apiKey) /\ run.opts.fetch = "none"
  /\ Sent(run, "exchange") # {}

ViaBearerFallback(run) ==
  /\ ~IsSome(run.opts.apiKey) /\ run.opts.fetch = "anthropic" /\ run.opts.beta

\* C29: a resolution of the anthropic handler for an oauth credential does not
\* fail and ends in exactly one of DirectKey, DerivedKey and BearerFallback,
\* whatever the refresh and exchange endpoints answer; it sends an exchange
\* request only with a token that is not empty and not shaped like an API key.
C29_ThreeOutcomes ==
  LET run == last.runs["anthropic"]
  IN (last.op = "build" /\ run.ran /\ run.auth.type = "oauth") =>
       /\ ~run.threw
       /\ Cardinality({o \in {"direct", "derived", "bearer"} :
                         \/ o = "direct" /\ DirectKey(run)
                         \/ o = "derived" /\ DerivedKey(run)
                         \/ o = "bearer" /\ ViaBearerFallback(run)}) = 1
       /\ Cardinality(Sent(run, "exchange")) <= 1
       /\ \A i \in Sent(run, "exchange") :
            /\ IsSome(run.net[i].tok)
            /\ Val(run.net[i].tok) # EmptyStr
            /\ ~DirectKeyShape(Val(run.net[i].tok))

\* a resolution that refreshed, exchanged, was refused a key and ended in the
\* bearer fallback
C29_Witness ==
  LET run == last.runs["anthropic"]
  IN /\ last.op = "build" /\ run.ran /\ run.auth.type = "oauth"
     /\ Sent(run, "refresh") # {}
     /\ Sent(run, "exchange") # {}
     /\ ViaBearerFallback(run)

----------------------------------------------------------------------------
(* Properties of the device authorization *)

\* C21: every device authorization ends with a token, a provider error or the
\* timeout error within the maximum number of polls: no polling loop sends more
\* polls than that.
C21_BoundedPolling ==
  flow.handler # "none" => flow.polls <= maxPolls

----------------------------------------------------------------------------
(* Properties of the secret resolver *)

\* the value a reference stands for, when it stands for one
Denoted(ref) ==
  CASE ref.type \in {"string", "plain"} -> Some(ref.value)
    [] ref.type = "env" -> env[ref.name]
    [] ref.type = "storage" -> IF kv = None THEN None ELSE Val(kv)[ref.name]
    [] OTHER -> None

\* C26: resolve(ref) returns the literal of a literal reference, the value of
\* the variable of an environment reference when it is set, the stored value
\* of a storage reference when the key is present; when the variable is unset
\* or the key is absent it fails and returns no value.
C26_ResolveOrFail ==
  last.op = "resolve" =>
    LET ref == last.args[1]
    IN IF IsSome(Denoted(ref))
       THEN ~last.threw /\ last.ret = Denoted(ref)
       ELSE last.threw /\ last.ret = None

\* a storage reference to an absent key of a storage that holds another key
C26_Witness ==
  /\ last.op = "resolve"
  /\ last.args[1].type = "storage"
  /\ kv # None
  /\ \E k \in StorageKeys : IsSome(Val(kv)[k])
  /\ ~IsSome(Val(kv)[last.args[1].name])
  /\ last.threw

----------------------------------------------------------------------------
(* Properties of the provider store *)

\* C27: on one provider store at most one remote catalog fetch is issued,
\* whatever calls are made and however they interleave, and no call answers
\* before the refresh task has settled.
C27_CatalogFetchedOnce ==
  /\ catalog.fetches <= 1
  /\ (\E i \in CallIds : calls[i] = "waiting") => catalog.fetches = 1
  /\ last.op = "answer" => catalog.task \in {"ok", "failed"} /\ catalog.fetches = 1

\* two calls were started on a new store and the first has been answered
C27_Witness ==
  /\ last.op = "answer"
  /\ \E i \in CallIds : calls[i] = "waiting"
  /\ catalog.fetches = 1

\* C28: the cached state was built from the catalog as it is now (extend()
\* and a successful refresh drop it), a call is answered with such a state,
\* and a state is built at most once for each catalog.
C28_StateFollowsCatalog ==
  /\ stateCache # None => catalog.builtFrom = catalog.version
  /\ last.op = "answer" => last.ret = <<catalog.version>>
  /\ catalog.builds <= catalog.version + 1

\* a call is answered with a second state, built after a change of the catalog
C28_Witness ==
  /\ last.op = "answer"
  /\ catalog.builds = 2
  /\ catalog.version > 0

----------------------------------------------------------------------------
(* Properties of the store under concurrent callers and unreadable documents *)

\* C23: whatever set, remove and all() calls are in progress, all() (and so
\* get) returns the whole map as the last finished write left it: it never
\* fails on, nor returns, a document that is only partly written.
C23_ReadersSeeWholeMap ==
  last.op = "all" =>
    /\ ~last.threw
    /\ last.ret = <<StoreAll(mode, persisted, discovered)>>

\* C25: discover(), with or without persist, and the building of the provider
\* state never throw, whether or not the stored document can be parsed and
\* whether or not a scanner throws.
C25_BestEffortNeverThrows ==
  last.op \in {"discover", "build"} => ~last.threw

\* C30: an entry that was in the persisted map before an operation and is not
\* in it afterwards was taken out by remove of that very provider.
C30_OnlyRemoveDestroys ==
  \A p \in Providers :
    (IsSome(last.before[p]) /\ ~IsSome(persisted[p])) => (last.op = "remove" /\ last.p = p)

----------------------------------------------------------------------------
(* Properties of concurrent refreshes *)

\* C22: a request whose refresh is rejected, be it because another request
\* has used the refresh token first and the endpoint has rotated it, does not
\* fail: it is sent on carrying the access token of the credential it read.
C22_RejectedRefreshFallsThrough ==
  last.op = "fetch" =>
    LET run == last.runs[last.p]
    IN /\ ~run.threw
       /\ Len(run.net) > 0
       /\ run.net[Len(run.net)].ep = "api"
       /\ (Len(run.net) = 2 /\ last.rsp.kind # "ok") =>
            run.net[2].tok = run.auth.key

\* the second of two requests that read the same expired credential: the first
\* has refreshed, the endpoint has rotated the token and rejects the second
C22_Witness ==
  /\ last.op = "fetch"
  /\ last.rsp = RefreshFail("status")
  /\ Len(last.runs[last.p].net) = 2
  /\ last.runs[last.p].net[1].tok = Some(TokOrt1)
  /\ rotation.accepts = TokOrt2
  /\ last.runs[last.p].net[2].tok = Some(TokOatOld)

----------------------------------------------------------------------------
(* Properties of the credential handed to setAuth *)

\* the fields of the credential read that a refresh has no business with
Kept(c) == [type |-> c.type, location |-> c.location]

\* C31, as stated: the credential a run of the anthropic handler hands to
\* setAuth after a refresh is of kind oauth with the other fields of the
\* credential read, the access token of the answer, a defined refresh token
\* (the answer's, else the previous one) and a defined expiry, whatever the
\* answer carries.
C31_SetCredentialComplete ==
  LET run == last.runs["anthropic"]
  IN (run.ran /\ run.sets # <<>>) =>
       LET c == run.sets[1]
       IN /\ c.type = "oauth"
          /\ Kept(c) = Kept(run.auth)
          /\ c.key = Some(OrEmpty(last.rsp.access_token))
          /\ IsSome(c.refresh)
          /\ c.refresh = IF IsSome(last.rsp.refresh_token) THEN last.rsp.refresh_token
                         ELSE run.auth.refresh
          /\ IsSome(c.expires)

\* C31, amended: as above, but the expiry is that of the answer, at the time
\* of the refresh plus expires_in seconds, and the credential has no expiry
\* when the answer has no expires_in.
C31_SetCredentialFollowsAnswer ==
  LET run == last.runs["anthropic"]
  IN (run.ran /\ run.sets # <<>>) =>
       LET c == run.sets[1]
       IN /\ c.type = "oauth"
          /\ Kept(c) = Kept(run.auth)
          /\ c.key = Some(OrEmpty(last.rsp.access_token))
          /\ IsSome(c.refresh)
          /\ c.refresh = IF IsSome(last.rsp.refresh_token) THEN last.rsp.refresh_token
                         ELSE run.auth.refresh
          /\ c.expires = IF IsSome(last.rsp.expires_in)
                         THEN Some(last.at + Val(last.rsp.expires_in) * 1000)
                         ELSE None

\* a refresh answered with an access token and nothing else has been stored
C31_Witness ==
  LET run == last.runs["anthropic"]
  IN /\ run.ran
     /\ run.sets # <<>>
     /\ last.rsp = RefreshOk(Some(TokOatNew), None, None)
     /\ run.sets[1].refresh = Some(TokOrt1)
     /\ run.sets[1].expires = None

----------------------------------------------------------------------------
(* Properties of the disk probe *)

\* C32: a provider listed from the disk is listed once, and when any of the
\* scanner results for it carries a secret, its one entry carries a secret,
\* also when the first result for it carried none.
C32_DiskCandidateUpgraded ==
  (last.op = "discover" /\ ~last.threw) =>
    /\ \A i, j \in 1..Len(last.ret) :
         last.ret[i].providerId = last.ret[j].providerId => i = j
    /\ \A i \in 1..Len(last.ret) :
         LET r == last.ret[i]
             all == runDiskScanners(diskFiles)
         IN (r.source = "disk" /\ \E k \in DiskReports(r.providerId) : IsSome(all[k].key))
              => IsSome(r.key)

----------------------------------------------------------------------------
(* Properties of the configured secret reference *)

\* C33: a state built for a provider configured with a secret reference uses
\* the secret that the secret resolver returns for the reference, and no state
\* is built when the resolver fails on it.
C33_ConfigSecretAsResolver ==
  (last.op = "build" /\ ~last.threw) =>
    \A p \in Providers :
      (IsSome(userConfig[p]) /\ IsSome(Val(userConfig[p]).apiKey)) =>
        LET r == resolve(Val(Val(userConfig[p]).apiKey), env, kv)
        IN /\ ~r.threw
           /\ Val(stateCache)[p].key = r.value

----------------------------------------------------------------------------
(* Properties of the lookup after a refresh *)

\* C34: a run of a handler that starts when the store holds for its provider
\* a refreshed credential that has not expired reads that credential and
\* sends no refresh request, whether or not discovery holds candidates for the
\* provider.
C34_RefreshedCredentialRead ==
  \A p \in Registered :
    LET run == last.runs[p]
        c == last.before[p]
    IN (/\ run.ran
        /\ IsSome(c)
        /\ Val(c).type = "oauth"
        /\ Val(c).key = Some(TokOatNew)
        /\ ~NeedsRefresh(Val(c), last.at)) =>
         /\ run.auth = Val(c)
         /\ Sent(run, "refresh") = {}

----------------------------------------------------------------------------
(* Properties of overlapping writes *)

\* C35: a set or remove for one provider that has completed has left the
\* entry of every other provider as it was when its write began, so that a
\* credential another call stored meanwhile is still there.
C35_OverlappingWriteKeepsOthers ==
  (last.op \in {"set", "remove"} /\ last.writes = 1) =>
    \A q \in Providers \ {last.p} : persisted[q] = last.before[q]

----------------------------------------------------------------------------
(* Properties of removal *)

\* C36: a provider absent from the store, be it after remove(p), gets an
\* entry again only by a set or a discover of the caller, never by a request
\* whose refresh was under way when the entry was removed.
C36_RemovedStaysAbsent ==
  \A p \in Providers :
    (~IsSome(last.before[p]) /\ IsSome(persisted[p])) => last.op \in {"set", "discover"}

----------------------------------------------------------------------------
(* Properties of the shared state build *)

\* C37: however many calls overlap, the state is built at most once before
\* the first invalidation and once after each invalidation (an extend() or a
\* successful catalog refresh), so each handler is loaded at most once for
\* each of them.
C37_OneBuildPerInvalidation ==
  /\ catalog.builds <= catalog.version + 1
  /\ (catalog.builds > 0 /\ catalog.builtFrom = catalog.version) => stateCache # None

\* two calls overlap, one is answered and the other still waits, and the
\* state has been built once
C37_Witness ==
  /\ last.op = "answer"
  /\ \E i \in CallIds : calls[i] = "waiting"
  /\ catalog.builds = 1
  /\ stateCache # None

----------------------------------------------------------------------------
(* Properties of a failed state build *)

\* C38: the state cache never holds the outcome of a build that failed, so
\* that the next call builds the state anew.
C38_FailedBuildNotCached == stateCache # Rejected

----------------------------------------------------------------------------
(* Properties of the source of a state *)

\* C39: in every state built, a provider's source is none exactly when the
\* state has no key for it, and listProviders lists, of the installed
\* providers, those and only those whose source is not none.
C39_SourceNoneIffNoSecret ==
  /\ stateCache # None =>
       \A p \in Providers :
         (Val(stateCache)[p].source = "none") <=> ~IsSome(Val(stateCache)[p].key)
  /\ last.op = "list" =>
       last.ret[1] = {p \in last.args[1] : IsSome(Val(stateCache)[p].key)}

\* a listing that leaves out an installed provider without a key and keeps
\* one with a key
C39_Witness ==
  /\ last.op = "list"
  /\ last.ret[1] # {}
  /\ \E p \in last.args[1] : p \notin last.ret[1] /\ Val(stateCache)[p].source = "none"
  /\ \E p \in last.ret[1] : IsSome(Val(stateCache)[p].key)

----------------------------------------------------------------------------
(* Properties of the authorization-code flow *)

\* the pasted callback, a URL or a query string with a code or a state
\* parameter, has no code
MissingCode(v) ==
  \/ v.form \in {"empty", "badurl"}
  \/ /\ v.form = "url" \/ (v.form = "query" /\ (IsSome(v.code) \/ IsSome(v.state)))
     /\ v.code \in {None, Some(EmptyStr)}

\* the pasted callback carries a state that is not the one generated
OtherState(v, state) ==
  /\ v.form \in {"url", "query"}
  /\ IsSome(v.state)
  /\ v.state # Some(state)

\* C40: when the pasted callback has no code, or carries a state other than
\* the one generated for the request, the handler throws and sends no
\* exchange request.
C40_NoExchangeOnBadCallback ==
  (last.op = "authorize" /\ (MissingCode(last.args[1]) \/ OtherState(last.args[1], last.args[2])))
    => (last.threw /\ last.ret = <<>>)

\* a callback URL with a code and the state of another request was pasted
C40_Witness ==
  /\ last.op = "authorize"
  /\ last.args[1].form = "url"
  /\ ~MissingCode(last.args[1])
  /\ OtherState(last.args[1], last.args[2])
  /\ last.threw
  /\ last.ret = <<>>

====
